---------------------------- MODULE Spec2Model ----------------------------
(***************************************************************************)
(* A model of the Portfolio-Analyzer core: the trade loader, the split     *)
(* adjuster, the holdings aggregation and price refresh of                 *)
(* PortfolioManager, the quote gateway (PriceFetcher), the currency        *)
(* converter, calculate_xirr, and the request handlers and analysis        *)
(* threads of app.py.                                                      *)
(*                                                                         *)
(* Numbers.  The program computes in IEEE doubles.  The model computes in  *)
(* exact rationals <<n, d>> (d > 0, lowest terms), so every equality below *)
(* is the exact-arithmetic statement of what the program holds up to       *)
(* floating-point rounding.  NaN (an unparseable cell) and None are the    *)
(* non-numbers <<1, 0>> and <<0, 0>>; an infinite cashflow is <<2, 0>>.     *)
(*                                                                         *)
(* Time.  A timestamp is <<day, tod>>: a calendar day and a time of day    *)
(* (0 = midnight, 1 = later that day).  Timestamps order                   *)
(* lexicographically; normalize() drops the time of day.                   *)
(***************************************************************************)
EXTENDS Integers, Sequences, FiniteSets, TLC

VARIABLES
    csv_files,      \* the *.csv files of the data directory: a sequence of files, each a sequence of raw rows
    df_trades,      \* PortfolioManager.df_trades: the ledger (a sequence of trade records)
    has_columns,    \* whether df_trades carries the adjusted_quantity / adjusted_price columns
    splits_src,     \* what the split source answers per symbol (a failure or a date-ordered sequence of events)
    splits_cache,   \* SplitAdjuster.splits_cache
    holdings,       \* PortfolioManager.holdings: symbol -> holding record
    price_cache,    \* PriceFetcher._cache restricted to the (symbol, 'latest_price') keys
    quote_log,      \* per symbol, what the last get_latest_price_safe call returned and whether it was a real quote
    pc,             \* position of the PortfolioManager: construction steps, then "ready" or "failed"
    agg_i,          \* index of the next symbol in _calculate_holdings_with_batching
    rf,             \* position of refresh_prices: [i |-> index in holdings keys, step |-> sub-step, price |-> new_price]
    rf_rounds,      \* number of refresh_prices calls started
    rate_cache,     \* CurrencyConverter._rate_cache: the set of pairs cached today, with their rates
    conv,           \* record of the last CurrencyConverter.convert call
    report,         \* record of the last get_portfolio_summary / get_portfolio_value_history call
    xirr,           \* record of the last calculate_xirr call
    fetch,          \* record of the last get_latest_price_safe call made on the PriceFetcher directly
    clock,          \* time.time() in whole seconds, kept by the timed calls of the PriceFetcher
    last_request_time,  \* PriceFetcher._last_request_time, as the timed calls leave it
    last_issued,    \* per symbol, when the quote source was sent the last request of a timed call
    PORTFOLIO_CACHE,    \* app.PORTFOLIO_CACHE: user_id -> the manager stored for the user
    ANALYSIS_STATUS,    \* app.ANALYSIS_STATUS: user_id -> 'running', 'complete' or 'error'
    user_files,     \* the csv files of the user's upload folder: 0 (none) or the number of the upload
    analyses,       \* the run_analysis_for_user threads started so far, in order of start
    loading,        \* the /loading requests that found no status and have not returned yet
    n_loading,      \* number of /loading requests received
    reset,          \* the upload (POST /) or /clear-data request in progress, if any
    resets          \* number of times an upload or clear-data request has deleted the user's status

vars == <<csv_files, df_trades, has_columns, splits_src, splits_cache, holdings,
          price_cache, quote_log, pc, agg_i, rf, rf_rounds, rate_cache, conv, report,
          xirr, fetch, clock, last_request_time, last_issued,
          PORTFOLIO_CACHE, ANALYSIS_STATUS, user_files, analyses, loading, n_loading,
          reset, resets>>

-----------------------------------------------------------------------------
(* Bounds of the model *)

MaxRows == 2            \* rows over all csv files
MaxRefresh == 1         \* refresh_prices calls per manager
MaxAmount == 2          \* convert() amounts are 0..MaxAmount
MaxFlows == 2           \* calculate_xirr is given lists of at most MaxFlows elements
MaxLoading == 2         \* /loading requests of the user
MaxResets == 1          \* upload and clear-data requests of the user
MaxClock == 2           \* timed gateway calls are entered while the clock is at most MaxClock

-----------------------------------------------------------------------------
(* Exact rational arithmetic standing for the program's float arithmetic *)

Abs(x) == IF x < 0 THEN -x ELSE x

RECURSIVE Gcd(_, _)
Gcd(a, b) == IF b = 0 THEN a ELSE Gcd(b, a % b)

\* the rational n/d in lowest terms with a positive denominator (d # 0)
Rat(n, d) ==
    LET s == IF d < 0 THEN -1 ELSE 1
        g == Gcd(Abs(n), Abs(d))
    IN  <<(s * n) \div g, (s * d) \div g>>

RInt(n) == <<n, 1>>
Zero == RInt(0)
RAdd(a, b) == Rat(a[1] * b[2] + b[1] * a[2], a[2] * b[2])
RNeg(a) == <<-a[1], a[2]>>
RSub(a, b) == RAdd(a, RNeg(b))
RMul(a, b) == Rat(a[1] * b[1], a[2] * b[2])
RDiv(a, b) == Rat(a[1] * b[2], a[2] * b[1])        \* b # 0
RLess(a, b) == a[1] * b[2] < b[1] * a[2]
RAbs(a) == <<Abs(a[1]), a[2]>>
IsNum(x) == x[2] > 0
NaN == <<1, 0>>             \* a cell pd.to_numeric coerces to NaN
None == <<0, 0>>            \* Python's None where a number is expected
NaT == <<0, -1>>            \* a cell pd.to_datetime coerces to NaT
NoSymbol == <<>>            \* an empty Symbol cell
PosInf == <<2, 0>>          \* float('inf')

RECURSIVE RSum(_)
RSum(s) == IF s = <<>> THEN Zero ELSE RAdd(Head(s), RSum(Tail(s)))

\* Python truthiness of a number-or-None value: None and 0 are falsy
Truthy(x) == IsNum(x) /\ x # Zero

-----------------------------------------------------------------------------
(* Timestamps *)

TsLess(a, b) == a[1] < b[1] \/ (a[1] = b[1] /\ a[2] < b[2])
TsLeq(a, b) == a = b \/ TsLess(a, b)
Normalize(ts) == <<ts[1], 0>>


-----------------------------------------------------------------------------
(* Input universe: symbols, raw csv rows, split histories *)

TSLA == <<"T", "S", "L", "A">>
VODL == <<"V", "O", "D", ".", "L">>
Symbols == {TSLA, VODL}

CutoffDays == 3650                      \* timedelta(days=3650) in _get_splits_for_symbol
Today == CutoffDays + 100               \* the day the program runs
NowTs == <<Today, 1>>                   \* datetime.now()

\* a csv row: the five columns the program reads and Kind, a row-kind discriminator column
\* the sources may carry ("trade", "dividend") and the program never reads
KindRow(kind, sym, ts, q, p, cur) ==
    [Kind |-> kind, Symbol |-> sym, DateTime |-> ts, Quantity |-> q, TPrice |-> p,
     Currency |-> cur]

Row(sym, ts, q, p, cur) == KindRow("trade", sym, ts, q, p, cur)

\* the raw rows a csv file may hold
RowUniverse ==
    { Row(TSLA, <<50, 1>>, RInt(10), RInt(100), "USD"),
      Row(TSLA, <<200, 1>>, RInt(10), RInt(200), "USD"),
      Row(TSLA, <<300, 0>>, RInt(-5), RInt(150), "USD"),
      Row(VODL, <<200, 0>>, RInt(100), RInt(40), "SGD"),
      Row(VODL, <<300, 1>>, RInt(-100), RInt(50), "SGD"),
      Row(TSLA, <<200, 1>>, RInt(5), NaN, "USD"),
      KindRow("dividend", TSLA, <<250, 0>>, RInt(1), RInt(5), "USD") }

\* a csv file: its rows, or a file whose processing raises (e.g. a missing column)
File(rows) == [readable |-> TRUE, rows |-> rows]
Unreadable == [readable |-> FALSE, rows |-> <<>>]

SeqsUpTo(S, n) == UNION { [1..k -> S] : k \in 0..n }

\* zero, one or two files, at most MaxRows rows in all
CsvInputs ==
    {<<>>, <<Unreadable>>}
    \cup { <<File(r)>> : r \in SeqsUpTo(RowUniverse, MaxRows) }
    \cup { <<Unreadable, File(<<a>>)>> : a \in RowUniverse }
    \cup { <<File(<<a>>), File(<<b>>)>> : a \in RowUniverse, b \in RowUniverse }

Split(ts, ratio) == [date |-> ts, ratio |-> ratio]

\* what ticker.splits may answer for a symbol: an exception, or events by date ascending
Events(es) == [ok |-> TRUE, events |-> es]
LookupFails == [ok |-> FALSE, events |-> <<>>]
SplitAnswers ==
    { LookupFails,
      Events(<<>>),
      Events(<<Split(<<80, 0>>, RInt(2)), Split(<<200, 1>>, Rat(3, 2))>>),
      Events(<<Split(<<250, 0>>, RInt(2)), Split(<<400, 0>>, RInt(2))>>) }

-----------------------------------------------------------------------------
(* utils/data_loader.py *)

\* mutant: a row with an unparseable price is kept
RowValid_PriceIgnored(r) ==
    /\ r.DateTime # NaT
    /\ r.Quantity # NaN
    /\ r.Symbol # NoSymbol

RowValid(r) ==
    /\ r.DateTime # NaT
    /\ r.Quantity # NaN
    /\ r.TPrice # NaN
    /\ r.Symbol # NoSymbol

\* df.dropna(subset=['Date/Time', 'Quantity', 'T. Price', 'Symbol'])
DropNa(rows) == SelectSeq(rows, RowValid)

\* the frames appended to all_trades: unreadable files are skipped
RECURSIVE CleanFrames(_)
CleanFrames(files) ==
    IF files = <<>> THEN <<>>
    ELSE IF ~Head(files).readable THEN CleanFrames(Tail(files))
         ELSE <<DropNa(Head(files).rows)>> \o CleanFrames(Tail(files))

\* pd.concat(all_trades, ignore_index=True)
RECURSIVE Concat(_)
Concat(frames) == IF frames = <<>> THEN <<>> ELSE Head(frames) \o Concat(Tail(frames))

\* the adjusted_* columns are initialised to the raw columns
WithAdjusted(r) ==
    [Kind |-> r.Kind, Symbol |-> r.Symbol, DateTime |-> r.DateTime, Quantity |-> r.Quantity,
     TPrice |-> r.TPrice, Currency |-> r.Currency,
     adjusted_quantity |-> r.Quantity, adjusted_price |-> r.TPrice,
     split_adjusted |-> FALSE]

SortedByDate(s) == \A i \in 1..Len(s) - 1 : TsLeq(s[i].DateTime, s[i + 1].DateTime)

\* sort_values(by="Date/Time") uses an unstable sort: any date-ordered arrangement of the rows
SortValues(rows) ==
    { [i \in 1..Len(rows) |-> rows[p[i]]] : p \in Permutations(1..Len(rows)) }

SortedArrangements(rows) == { s \in SortValues(rows) : SortedByDate(s) }

\* load_all_trades: [columns |-> whether the frame has columns, frames |-> possible results]
LoadAllTrades(files) ==
    IF files = <<>> \/ CleanFrames(files) = <<>>
    THEN [columns |-> FALSE, frames |-> {<<>>}]
    ELSE [columns |-> TRUE,
          frames |-> SortedArrangements(
                        [i \in 1..Len(Concat(CleanFrames(files))) |->
                            WithAdjusted(Concat(CleanFrames(files))[i])])]

-----------------------------------------------------------------------------
(* models/splits.py *)

\* df['Symbol'].unique(): the symbols in order of first appearance
RECURSIVE Unique(_, _)
Unique(df, seen) ==
    IF df = <<>> THEN <<>>
    ELSE IF Head(df).Symbol \in seen THEN Unique(Tail(df), seen)
         ELSE <<Head(df).Symbol>> \o Unique(Tail(df), seen \cup {Head(df).Symbol})

UniqueSymbols(df) == Unique(df, {})

SeqToSet(s) == { s[i] : i \in 1..Len(s) }

CutoffDate == <<NowTs[1] - CutoffDays, NowTs[2]>>      \* datetime.now() - timedelta(days=3650)

\* splits[splits.index >= cutoff_date]
RecentSplits(splits) == SelectSeq(splits, LAMBDA e : TsLeq(CutoffDate, e.date))

\* _get_splits_for_symbol: [splits |-> the series returned, cache |-> the cache afterwards]
GetSplitsForSymbol(cache, src, symbol) ==
    IF symbol \in DOMAIN cache
    THEN [splits |-> cache[symbol], cache |-> cache]
    ELSE LET got == IF ~src[symbol].ok THEN <<>> ELSE RecentSplits(src[symbol].events)
         IN  [splits |-> got, cache |-> cache @@ (symbol :> got)]

\* mutant: `<=` for `<`, so that a trade on the split's day is scaled too
PreSplit_Inclusive(trade, event) == TsLeq(Normalize(trade.DateTime), Normalize(event.date))

PreSplit(trade, event) == TsLess(Normalize(trade.DateTime), Normalize(event.date))

\* mutant: the quantity is scaled and the price is left as it was
ScaleTrade_PriceKept(t, event) ==
    IF TsLess(Normalize(t.DateTime), Normalize(event.date))
    THEN [t EXCEPT !.adjusted_quantity = RMul(@, event.ratio), !.split_adjusted = TRUE]
    ELSE t

\* one split event applied to one trade
ScaleTrade(t, event) ==
    IF PreSplit(t, event)
    THEN [t EXCEPT !.adjusted_quantity = RMul(@, event.ratio),
                   !.adjusted_price = RDiv(@, event.ratio),
                   !.split_adjusted = TRUE]
    ELSE t

\* mutant: an event is applied only when it lies between the first and the last trade
ApplyOneSplit_WindowOnly(trades, event) ==
    IF /\ \E i \in 1..Len(trades) : TsLeq(Normalize(trades[i].DateTime), Normalize(event.date))
       /\ \E i \in 1..Len(trades) : TsLeq(Normalize(event.date), Normalize(trades[i].DateTime))
    THEN [i \in 1..Len(trades) |-> ScaleTrade(trades[i], event)]
    ELSE trades

ApplyOneSplit(trades, event) == [i \in 1..Len(trades) |-> ScaleTrade(trades[i], event)]

RECURSIVE ApplyEvents(_, _)
ApplyEvents(trades, splits) ==
    IF splits = <<>> THEN trades
    ELSE ApplyEvents(ApplyOneSplit(trades, Head(splits)), Tail(splits))

\* _apply_splits_to_trades
ApplySplitsToTrades(trades, splits) ==
    IF splits = <<>> THEN trades
    ELSE ApplyEvents(
            [i \in 1..Len(trades) |->
                [trades[i] EXCEPT !.adjusted_quantity = trades[i].Quantity,
                                  !.adjusted_price = trades[i].TPrice]],
            splits)

\* the body of the per-symbol loop of adjust_for_splits, on the state [df, cache]
AdjustSymbol(st, src, symbol) ==
    LET g == GetSplitsForSymbol(st.cache, src, symbol)
        idx == { i \in 1..Len(st.df) : st.df[i].Symbol = symbol }
        symbol_trades == SelectSeq(st.df, LAMBDA t : t.Symbol = symbol)
        adjusted_trades == ApplySplitsToTrades(symbol_trades, g.splits)
        rank(i) == Cardinality({ j \in idx : j <= i })
    IN  IF g.splits = <<>>
        THEN [df |-> st.df, cache |-> g.cache]
        ELSE [df |-> [i \in 1..Len(st.df) |->
                        IF i \in idx THEN adjusted_trades[rank(i)] ELSE st.df[i]],
              cache |-> g.cache]

\* mutant: a failed lookup ends the loop, the remaining symbols are left as loaded
RECURSIVE AdjustLoop_AbortOnFailure(_, _, _)
AdjustLoop_AbortOnFailure(st, src, symbols) ==
    IF symbols = <<>> THEN st
    ELSE IF ~src[Head(symbols)].ok THEN st
    ELSE AdjustLoop_AbortOnFailure(AdjustSymbol(st, src, Head(symbols)), src, Tail(symbols))

RECURSIVE AdjustLoop(_, _, _)
AdjustLoop(st, src, symbols) ==
    IF symbols = <<>> THEN st
    ELSE AdjustLoop(AdjustSymbol(st, src, Head(symbols)), src, Tail(symbols))

\* adjust_for_splits: [df, cache] after the call
AdjustForSplits(df, cache, src) ==
    IF df = <<>> THEN [df |-> df, cache |-> cache]
    ELSE AdjustLoop([df |-> df, cache |-> cache], src, UniqueSymbols(df))

-----------------------------------------------------------------------------
(* utils/price_fetcher.py *)

Retries == 3                \* PriceFetcher(retries=3)
PlaceholderPrice == 100     \* the literal get_latest_price_safe returns when it has no quote
DefaultPrice == 100         \* the default of self._cache.get(cache_key, 100.0) in get_latest_price

\* `pat in symbol` for strings held as sequences of characters
Contains(sym, pat) ==
    \E k \in 0..(Len(sym) - Len(pat)) : \A j \in 1..Len(pat) : sym[k + j] = pat[j]

InvalidPatterns == { <<"$">>, <<".", "L">>, <<".", "T", "O">>, <<"^">> }
KnownFunds == { <<"S", "P", "Y">>, <<"Q", "Q", "Q">>, <<"V", "T", "I">>, <<"V", "O", "O">> }

\* is_valid_ticker
IsValidTicker(symbol) ==
    IF \E pat \in InvalidPatterns : Contains(symbol, pat)
    THEN symbol \in KnownFunds
    ELSE Len(symbol) <= 6

\* Answers of the quote source during one get_latest_price call.
\*   probe: the outcome of each of the `retries` attempts of _fetch_with_retry
\*          ("data", "empty", "429", "error")
\*   hist:  what the price read on the ticker gives: "close" (a closing price),
\*          "info" (no history, a regularMarketPrice), "none" (neither), "exception"
\*   raises: "" or the message class of an exception escaping get_latest_price
ProbeFailures == {"empty", "429", "error"}
ProbeAnswers ==
    { [i \in 1..Retries |-> IF i <= k THEN f ELSE "data"] :
        k \in 0..Retries, f \in ProbeFailures }

PriceValues == { RInt(50), RInt(100) }

QuoteAnswers ==
    { [probe |-> pr, hist |-> h, price |-> p, raises |-> ""] :
        pr \in ProbeAnswers, h \in {"close", "info"}, p \in PriceValues }
    \cup { [probe |-> pr, hist |-> h, price |-> Zero, raises |-> ""] :
        pr \in ProbeAnswers, h \in {"none", "exception"} }
    \cup { [probe |-> [i \in 1..Retries |-> "data"], hist |-> "none", price |-> Zero, raises |-> m] :
        m \in {"delisted", "other"} }

\* mutant: one more attempt is made after the last failure
FetchAttempt_OneMore(probe, i) ==
    IF \E k \in i..Retries : probe[k] = "data"
    THEN [ticker |-> TRUE, attempts |-> CHOOSE k \in i..Retries : probe[k] = "data"]
    ELSE [ticker |-> FALSE, attempts |-> Retries + 1]

\* _fetch_with_retry: the number of attempts made and whether a ticker came back
RECURSIVE FetchAttempt(_, _)
FetchAttempt(probe, i) ==
    IF i > Retries THEN [ticker |-> FALSE, attempts |-> Retries]
    ELSE IF probe[i] = "data" THEN [ticker |-> TRUE, attempts |-> i]
         ELSE FetchAttempt(probe, i + 1)

FetchWithRetry(probe) == FetchAttempt(probe, 1)

\* get_latest_price: [value, cache, real, raised, hit, attempts]; `real` tells whether value
\* is a quote of the source, `hit` whether it was served from the cache, `attempts` how many
\* fetch attempts _fetch_with_retry made
GetLatestPrice(cache, symbol, q) ==
    IF symbol \in DOMAIN cache
    THEN [value |-> cache[symbol], cache |-> cache, real |-> TRUE, raised |-> "",
          hit |-> TRUE, attempts |-> 0]
    ELSE IF q.raises # ""
    THEN [value |-> Zero, cache |-> cache, real |-> FALSE, raised |-> q.raises,
          hit |-> FALSE, attempts |-> FetchWithRetry(q.probe).attempts]
    ELSE IF FetchWithRetry(q.probe).ticker /\ q.hist \in {"close", "info"}
    THEN [value |-> q.price, cache |-> cache @@ (symbol :> q.price), real |-> TRUE,
          raised |-> "", hit |-> FALSE, attempts |-> FetchWithRetry(q.probe).attempts]
    ELSE [value |-> IF symbol \in DOMAIN cache THEN cache[symbol] ELSE RInt(DefaultPrice),
          cache |-> cache, real |-> FALSE, raised |-> "",
          hit |-> FALSE, attempts |-> FetchWithRetry(q.probe).attempts]

\* mutant: no try/except, the exception reaches the caller
HandleQuote_Reraise(r) == r

\* the try/except of get_latest_price_safe around r, the outcome of get_latest_price
HandleQuote(r) ==
    IF r.raised # ""
    THEN [r EXCEPT !.value = RInt(PlaceholderPrice), !.real = FALSE, !.raised = ""]
    ELSE r

\* get_latest_price_safe: every path returns a number
GetLatestPriceSafe(cache, symbol, q) ==
    IF ~IsValidTicker(symbol)
    THEN [value |-> RInt(PlaceholderPrice), cache |-> cache, real |-> FALSE, raised |-> "",
          hit |-> FALSE, attempts |-> 0]
    ELSE HandleQuote(GetLatestPrice(cache, symbol, q))

-----------------------------------------------------------------------------
(* models/currency.py *)

Currencies == {"USD", "SGD", "EUR"}
Pairs == { p \in Currencies \X Currencies : p[1] # p[2] }

\* the rate the source quotes today for each pair, when it answers
FxQuote(p) ==
    CASE p = <<"SGD", "USD">> -> Rat(3, 4)
      [] p = <<"USD", "SGD">> -> Rat(4, 3)
      [] p = <<"USD", "EUR">> -> Rat(9, 10)
      [] p = <<"EUR", "USD">> -> Rat(11, 10)
      [] p = <<"SGD", "EUR">> -> Rat(2, 3)
      [] p = <<"EUR", "SGD">> -> Rat(3, 2)

\* how the source answers a fetch of a pair during one convert call: "ok" (a rate) or
\* "error" (an empty history, any other exception, or a rate of 0, which `if rate:` rejects)
FxAnswers == {"ok", "error"}
FxOracles(pairs) == [pairs -> FxAnswers]

\* the pairs convert(amount, f, t) may fetch
PairsOf(f, t) ==
    IF f = t THEN {}
    ELSE {<<f, t>>, <<t, f>>}
         \cup (IF f # "USD" /\ t # "USD"
               THEN {<<f, "USD">>, <<"USD", f>>, <<"USD", t>>, <<t, "USD">>}
               ELSE {})

Fetch(o, p) == <<p, o[p]>>          \* one request to the rate source and its answer

\* mutant: the inverse pair is tried before the direct pair
GetRate_InverseFirst(cache, o, f, t) ==
    IF f = t THEN [rate |-> RInt(1), cache |-> cache, trace |-> <<>>]
    ELSE IF <<t, f>> \in DOMAIN cache
    THEN [rate |-> RDiv(RInt(1), cache[<<t, f>>]), cache |-> cache, trace |-> <<>>]
    ELSE IF o[<<t, f>>] = "ok"
    THEN [rate |-> RDiv(RInt(1), FxQuote(<<t, f>>)),
          cache |-> cache @@ (<<t, f>> :> FxQuote(<<t, f>>)),
          trace |-> <<Fetch(o, <<t, f>>)>>]
    ELSE IF <<f, t>> \in DOMAIN cache
    THEN [rate |-> cache[<<f, t>>], cache |-> cache, trace |-> <<Fetch(o, <<t, f>>)>>]
    ELSE IF o[<<f, t>>] = "ok"
    THEN [rate |-> FxQuote(<<f, t>>),
          cache |-> cache @@ (<<f, t>> :> FxQuote(<<f, t>>)),
          trace |-> <<Fetch(o, <<t, f>>), Fetch(o, <<f, t>>)>>]
    ELSE [rate |-> None, cache |-> cache,
          trace |-> <<Fetch(o, <<t, f>>), Fetch(o, <<f, t>>)>>]

\* _get_rate: [rate |-> a number or None, cache |-> the cache afterwards,
\*             trace |-> the fetches issued, in order]
GetRate(cache, o, f, t) ==
    IF f = t THEN [rate |-> RInt(1), cache |-> cache, trace |-> <<>>]
    ELSE IF <<f, t>> \in DOMAIN cache
    THEN [rate |-> cache[<<f, t>>], cache |-> cache, trace |-> <<>>]
    ELSE IF o[<<f, t>>] = "ok"
    THEN [rate |-> FxQuote(<<f, t>>),
          cache |-> cache @@ (<<f, t>> :> FxQuote(<<f, t>>)),
          trace |-> <<Fetch(o, <<f, t>>)>>]
    ELSE IF <<t, f>> \in DOMAIN cache
    THEN [rate |-> RDiv(RInt(1), cache[<<t, f>>]), cache |-> cache,
          trace |-> <<Fetch(o, <<f, t>>)>>]
    ELSE IF o[<<t, f>>] = "ok"
    THEN [rate |-> RDiv(RInt(1), FxQuote(<<t, f>>)),
          cache |-> cache @@ (<<t, f>> :> FxQuote(<<t, f>>)),
          trace |-> <<Fetch(o, <<f, t>>), Fetch(o, <<t, f>>)>>]
    ELSE [rate |-> None, cache |-> cache,
          trace |-> <<Fetch(o, <<f, t>>), Fetch(o, <<t, f>>)>>]

\* the test convert applies to the result of its first leg: `if usd_amount:`
FirstLegOk(usd_amount) == Truthy(usd_amount)

\* convert: [value |-> a number or None, cache |-> the cache afterwards, trace |-> the fetches issued]
\* Convert looks the rate up (g); ConvertPivot holds the result of the first leg (u) and
\* ConvertSecondLeg that of the second (w).
RECURSIVE Convert(_, _, _, _, _)

ConvertSecondLeg(g, u, w) ==
    [value |-> w.value, cache |-> w.cache, trace |-> g.trace \o u.trace \o w.trace]

ConvertPivot(g, u, o, t) ==
    IF FirstLegOk(u.value)
    THEN ConvertSecondLeg(g, u, Convert(u.cache, o, u.value, "USD", t))
    ELSE [value |-> None, cache |-> u.cache, trace |-> g.trace \o u.trace]

ConvertWithRate(g, o, amount, f, t) ==
    IF g.rate = None /\ f # "USD" /\ t # "USD"
    THEN ConvertPivot(g, Convert(g.cache, o, amount, f, "USD"), o, t)
    ELSE IF Truthy(g.rate)
         THEN [value |-> RMul(amount, g.rate), cache |-> g.cache, trace |-> g.trace]
         ELSE [value |-> None, cache |-> g.cache, trace |-> g.trace]

Convert(cache, o, amount, f, t) ==
    IF f = t THEN [value |-> amount, cache |-> cache, trace |-> <<>>]
    ELSE ConvertWithRate(GetRate(cache, o, f, t), o, amount, f, t)

-----------------------------------------------------------------------------
(* models/portfolio.py: aggregation *)

SymbolTrades(df, symbol) == SelectSeq(df, LAMBDA t : t.Symbol = symbol)

Column(trades, f(_)) == [i \in 1..Len(trades) |-> f(trades[i])]

IsBuy(t) == RLess(Zero, t.adjusted_quantity)
IsSell(t) == RLess(t.adjusted_quantity, Zero)

BuyQuantity(trades) ==
    RSum(Column(SelectSeq(trades, IsBuy), LAMBDA t : t.adjusted_quantity))
SellQuantity(trades) ==
    RAbs(RSum(Column(SelectSeq(trades, IsSell), LAMBDA t : t.adjusted_quantity)))
NetQuantity(trades) == RSub(BuyQuantity(trades), SellQuantity(trades))

\* mutant: `net_quantity >= 0`
IsHeld_NonNegative(trades) == ~RLess(NetQuantity(trades), Zero)

\* the `net_quantity > 0` test that decides whether a symbol gets a holding
IsHeld(trades) == RLess(Zero, NetQuantity(trades))

\* mutant: the cost is summed over the sells as well
TotalCost_AllTrades(trades) ==
    RSum(Column(trades, LAMBDA t : RMul(t.adjusted_quantity, t.adjusted_price)))

TotalCost(trades) ==
    RSum(Column(SelectSeq(trades, IsBuy),
                LAMBDA t : RMul(t.adjusted_quantity, t.adjusted_price)))

AvgCost(trades) ==
    IF RLess(Zero, BuyQuantity(trades))
    THEN RDiv(TotalCost(trades), BuyQuantity(trades))
    ELSE Zero

MarketValue(quantity, price) == RMul(quantity, price)
UnrealizedPnl(quantity, avg_cost, price) == RMul(RSub(price, avg_cost), quantity)

\* the record stored in self.holdings[symbol]
NewHolding(trades, latest_price) ==
    [quantity |-> NetQuantity(trades),
     avg_cost |-> AvgCost(trades),
     current_price |-> latest_price,
     market_value |-> MarketValue(NetQuantity(trades), latest_price),
     unrealized_pnl |-> UnrealizedPnl(NetQuantity(trades), AvgCost(trades), latest_price),
     currency |-> trades[1].Currency,
     splits_applied |-> \E i \in 1..Len(trades) : trades[i].split_adjusted]

\* self.holdings.keys(): the held symbols in insertion order
HoldingKeys == SelectSeq(UniqueSymbols(df_trades), LAMBDA s : s \in DOMAIN holdings)

\* dict assignment d[k] = v
Put(d, k, v) == [x \in DOMAIN d \cup {k} |-> IF x = k THEN v ELSE d[x]]

-----------------------------------------------------------------------------
(* models/portfolio.py: reports *)

TopN == 5                   \* [:5] in get_portfolio_summary

\* `x or 0`
OrZero(x) == IF Truthy(x) THEN x ELSE Zero

\* `converted if converted else value`
OrValue(converted, value) == IF Truthy(converted) THEN converted ELSE value

\* sum(h['market_value'] for h in holdings.values() if h['currency'] == cur)
TotalIn(h, keys, cur) ==
    RSum(Column(SelectSeq(keys, LAMBDA k : h[k].currency = cur), LAMBDA k : h[k].market_value))

\* sorted(items, key=market_value, reverse=True): stable, largest first
RECURSIVE InsertDesc(_, _, _)
InsertDesc(h, sorted, k) ==
    IF sorted = <<>> THEN <<k>>
    ELSE IF RLess(h[Head(sorted)].market_value, h[k].market_value)
         THEN <<k>> \o sorted
         ELSE <<Head(sorted)>> \o InsertDesc(h, Tail(sorted), k)

RECURSIVE SortedDesc(_, _)
SortedDesc(h, keys) ==
    IF keys = <<>> THEN <<>>
    ELSE InsertDesc(h, SortedDesc(h, SubSeq(keys, 1, Len(keys) - 1)), keys[Len(keys)])

Take(s, n) == SubSeq(s, 1, IF Len(s) < n THEN Len(s) ELSE n)

\* get_portfolio_summary; o1, o2 are the rate source's answers during the two convert calls.
\* `converted` keeps what the two convert calls returned (c1, c2).
SummaryRecord(h, keys, total_value_usd_equivalent, c1, c2) ==
    [kind |-> "summary",
     total_holdings |-> Len(keys),
     total_value_usd |-> total_value_usd_equivalent,
     total_value_sgd |-> OrZero(c2.value),
     total_unrealized_pnl |-> RSum(Column(keys, LAMBDA k : h[k].unrealized_pnl)),
     top_holdings |-> Take(SortedDesc(h, keys), TopN),
     converted |-> <<c1.value, c2.value>>,
     cache |-> c2.cache]

SummaryInSgd(h, keys, total_value_usd_equivalent, c1, o2) ==
    SummaryRecord(h, keys, total_value_usd_equivalent, c1,
                  Convert(c1.cache, o2, total_value_usd_equivalent, "USD", "SGD"))

SummaryInUsd(h, keys, total_value_usd, c1, o2) ==
    SummaryInSgd(h, keys, RAdd(total_value_usd, OrZero(c1.value)), c1, o2)

GetPortfolioSummary(h, keys, cache, o1, o2) ==
    IF keys = <<>>
    THEN [kind |-> "summary", total_holdings |-> 0, total_value_usd |-> Zero,
          total_value_sgd |-> Zero, total_unrealized_pnl |-> Zero, top_holdings |-> <<>>,
          converted |-> <<>>, cache |-> cache]
    ELSE SummaryInUsd(h, keys, TotalIn(h, keys, "USD"),
                      Convert(cache, o1, TotalIn(h, keys, "SGD"), "SGD", "USD"), o2)

\* get_daily_portfolio_values, reduced to its first and last day: the first day's value with
\* a volatility draw of 0 (base_value) and the last day's value (current_value)
CurrentValue(h, keys) == RSum(Column(keys, LAMBDA k : h[k].market_value))
BaseValue(current_value) == RMul(current_value, Rat(9, 10))
DailyValues(current_value) == <<BaseValue(current_value), current_value>>
DailyPortfolioValues(h, keys) == DailyValues(CurrentValue(h, keys))

\* the conversion loop of get_portfolio_value_history; os[i] are the rate source's answers
\* during the i-th convert call, acc the loop's state.  `converted` keeps what the convert
\* calls returned.
RECURSIVE ConvertValues(_, _, _, _)

ConvertedValue(acc, c, value) ==
    [values |-> Append(acc.values, OrValue(c.value, value)),
     converted |-> Append(acc.converted, c.value),
     cache |-> c.cache]

ConvertValues(acc, os, values, currency) ==
    IF values = <<>> THEN acc
    ELSE ConvertValues(
            ConvertedValue(acc, Convert(acc.cache, Head(os), Head(values), "USD", currency),
                           Head(values)),
            Tail(os), Tail(values), currency)

HistoryRecord(currency, daily, r) ==
    [kind |-> "history", currency |-> currency, daily |-> daily,
     values |-> r.values, converted |-> r.converted, cache |-> r.cache]

HistoryOf(daily, cache, os, currency) ==
    IF currency # "USD"
    THEN HistoryRecord(currency, daily,
            ConvertValues([values |-> <<>>, converted |-> <<>>, cache |-> cache],
                          os, daily, currency))
    ELSE HistoryRecord(currency, daily, [values |-> daily, converted |-> <<>>, cache |-> cache])

\* get_portfolio_value_history(currency)
GetPortfolioValueHistory(h, keys, cache, os, currency) ==
    HistoryOf(DailyPortfolioValues(h, keys), cache, os, currency)

\* get_splits_analysis, lines 359-368: the symbols whose splits are requested from the
\* source, in order (the analysis asks the source itself, not the SplitAdjuster's cache)
AnalysisLookups(df) == SelectSeq(UniqueSymbols(df), IsValidTicker)

-----------------------------------------------------------------------------
(* utils/price_fetcher.py under a clock: when the requests of a call are issued *)

base_delay == 2             \* PriceFetcher(base_delay=2), seconds

\* the draws of random.uniform, in whole seconds
RateLimitJitter == {1}      \* random.uniform(0.5, 1.5) in _rate_limit_delay
BackoffJitter == {1, 3}     \* random.uniform(1, 3) in _fetch_with_retry

\* how long the quote source takes to answer a request (the same for the requests of a call)
RequestTimes == {0, 1}

\* how long the caller waits after a call returned before it makes the next one
IdleTimes == {0, 2}

\* _rate_limit_delay(symbol) entered at time t: the sleep and the stamps afterwards
SleepTime(last, symbol, t, jitter) ==
    IF symbol \in DOMAIN last /\ t - last[symbol] < base_delay
    THEN base_delay - (t - last[symbol]) + jitter
    ELSE 0

RateLimitDelay(last, symbol, t, jitter) ==
    [sleep |-> SleepTime(last, symbol, t, jitter),
     last |-> Put(last, symbol, t + SleepTime(last, symbol, t, jitter))]

\* _fetch_with_retry, lines 74-83: the sleep that follows the failed attempt i (i = 0, 1, ...)
WaitAfter(outcome, i, jitter) ==
    CASE outcome = "429" -> base_delay * (2 ^ i) + jitter
      [] outcome = "error" -> base_delay * (i + 1)
      [] outcome = "empty" -> 0

\* the loop of _fetch_with_retry from attempt i on, reached at time t: the times the
\* requests are issued, the sleeps after the failed attempts, and the time the loop is left
RECURSIVE AttemptTimes(_, _, _, _, _)

Attempted(t, w, rest) ==
    [requests |-> <<t>> \o rest.requests, waits |-> <<w>> \o rest.waits, end |-> rest.end]

AttemptTimes(probe, jit, rt, i, t) ==
    IF i >= Retries THEN [requests |-> <<>>, waits |-> <<>>, end |-> t]
    ELSE IF probe[i + 1] = "data" THEN [requests |-> <<t>>, waits |-> <<>>, end |-> t + rt]
    ELSE Attempted(t, WaitAfter(probe[i + 1], i, jit[i + 1]),
                   AttemptTimes(probe, jit, rt, i + 1,
                                t + rt + WaitAfter(probe[i + 1], i, jit[i + 1])))

\* get_latest_price, lines 95-109: the requests made on the ticker _fetch_with_retry returned
\* (its history, and its info when the history is empty)
PriceReads(q) ==
    IF ~FetchWithRetry(q.probe).ticker \/ q.raises # "" THEN 0
    ELSE IF q.hist \in {"close", "exception"} THEN 1
    ELSE 2

\* the reads follow one another, the first one as soon as _fetch_with_retry has returned
ReadTimes(q, rt, t) == [k \in 1..PriceReads(q) |-> t + (k - 1) * rt]

Timeline(d, a, q, rt) ==
    [requests |-> a.requests \o ReadTimes(q, rt, a.end), waits |-> a.waits,
     end |-> a.end + PriceReads(q) * rt, last |-> d.last]

\* get_latest_price_safe(symbol) entered at time t: [requests, waits, end, last]
TimedCall(last, cache, symbol, q, jit0, jit, rt, t) ==
    IF ~IsValidTicker(symbol) \/ symbol \in DOMAIN cache
    THEN [requests |-> <<>>, waits |-> <<>>, end |-> t, last |-> last]
    ELSE Timeline(RateLimitDelay(last, symbol, t, jit0),
                  AttemptTimes(q.probe, jit, rt, 0,
                               t + SleepTime(last, symbol, t, jit0)),
                  q, rt)

-----------------------------------------------------------------------------
(* utils/xirr_calculator.py *)

\* What calculate_xirr returns: None, the rate Newton's iteration converged to from one of
\* the initial guesses, or the compound-growth estimate.  The two rates are kept as the
\* terms they are computed from; `raised` names an exception leaving the function.
XNone == [kind |-> "none", raised |-> ""]
XRaised(e) == [kind |-> "none", raised |-> e]
XNewton(i, guess) == [kind |-> "newton", raised |-> "", tried |-> i, guess |-> guess]
XGrowth(final_value, total_invested, days) ==
    [kind |-> "growth", raised |-> "", final_value |-> final_value,
     total_invested |-> total_invested, days |-> days]

initial_guesses == <<Rat(1, 10), Rat(1, 20), Rat(1, 5), Rat(-1, 10), Rat(1, 100)>>

\* How scipy's newton ends from one initial guess: "root" (a finite rate > -0.99), "low" (a
\* finite rate <= -0.99), "nan" (nan or inf) or "raise" (no convergence, zero derivative)
\* An oracle gives the outcome for each guess.
NewtonFailures == {"low", "nan", "raise"}
NewtonOutcomes == {"root"} \cup NewtonFailures
NewtonOracles == [1..Len(initial_guesses) -> NewtonOutcomes]

XirrFlows == { RInt(-100), Zero, RInt(110), NaN, PosInf }
XirrDays == { 0, 365 }

AllZero(cashflows) == \A i \in 1..Len(cashflows) : cashflows[i] = Zero
AnyNaN(cashflows) == \E i \in 1..Len(cashflows) : cashflows[i] = NaN
AnyInf(cashflows) == \E i \in 1..Len(cashflows) : cashflows[i] = PosInf

\* min(dates)
MinOf(S) == CHOOSE x \in S : \A y \in S : x <= y

\* days = [(d - first_date).days for d in dates]
DaysSinceFirst(dates) == [i \in 1..Len(dates) |-> dates[i] - MinOf(SeqToSet(dates))]

\* lines 80-93: the compound-growth estimate
TotalInvested(cashflows) ==
    RNeg(RSum(SelectSeq(cashflows, LAMBDA c : RLess(c, Zero))))

\* mutant: the estimate is computed whatever the number of years
FallbackEstimate_AnyYears(cashflows, days) ==
    IF RLess(Zero, TotalInvested(cashflows)) /\ RLess(Zero, cashflows[Len(cashflows)])
    THEN XGrowth(cashflows[Len(cashflows)], TotalInvested(cashflows), days[Len(days)])
    ELSE XNone

FallbackEstimate(cashflows, days) ==
    IF RLess(Zero, TotalInvested(cashflows)) /\ RLess(Zero, cashflows[Len(cashflows)])
       /\ days[Len(days)] > 0
    THEN XGrowth(cashflows[Len(cashflows)], TotalInvested(cashflows), days[Len(days)])
    ELSE XNone

\* mutant: a converged rate of -0.99 or less is accepted
RECURSIVE NewtonLoop_AcceptsLow(_, _, _, _)
NewtonLoop_AcceptsLow(cashflows, days, newton, i) ==
    IF i > Len(initial_guesses) THEN FallbackEstimate(cashflows, days)
    ELSE IF newton[i] \in {"root", "low"} THEN XNewton(i, initial_guesses[i])
         ELSE NewtonLoop_AcceptsLow(cashflows, days, newton, i + 1)

\* lines 58-77: the initial guesses in order, the first accepted result returned
RECURSIVE NewtonLoop(_, _, _, _)
NewtonLoop(cashflows, days, newton, i) ==
    IF i > Len(initial_guesses) THEN FallbackEstimate(cashflows, days)
    ELSE IF newton[i] = "root" THEN XNewton(i, initial_guesses[i])
         ELSE NewtonLoop(cashflows, days, newton, i + 1)

\* lines 13-25: the checks made before any computation
InputRejected(cashflows) ==
    Len(cashflows) < 2 \/ AllZero(cashflows) \/ AnyNaN(cashflows) \/ AnyInf(cashflows)

\* the body of the outer try
XirrBody(cashflows, dates, newton) ==
    IF Len(cashflows) # Len(dates) THEN XRaised("ValueError")
    ELSE IF InputRejected(cashflows) THEN XNone
    ELSE NewtonLoop(cashflows, DaysSinceFirst(dates), newton, 1)

\* mutant: no outer except, the exception leaves the function
CatchAll_Reraise(r) == r

\* lines 95-97: except Exception: return None
CatchAll(r) == IF r.raised # "" THEN XNone ELSE r

calculate_xirr(cashflows, dates, newton) == CatchAll(XirrBody(cashflows, dates, newton))

-----------------------------------------------------------------------------
(* The state machine *)

Idle == [i |-> 0, step |-> "idle"]
NoCall == [kind |-> "none"]

Init ==
    /\ csv_files \in CsvInputs
    /\ df_trades = <<>>
    /\ has_columns = FALSE
    /\ splits_src = <<>>
    /\ splits_cache = <<>>
    /\ holdings = <<>>
    /\ price_cache = <<>>
    /\ quote_log = <<>>
    /\ pc = "new"
    /\ agg_i = 0
    /\ rf = Idle
    /\ rf_rounds = 0
    /\ rate_cache = <<>>
    /\ conv = NoCall
    /\ report = NoCall
    /\ xirr = NoCall
    /\ fetch = NoCall
    /\ clock = 0
    /\ last_request_time = <<>>
    /\ last_issued = <<>>
    /\ PORTFOLIO_CACHE = <<>>
    /\ ANALYSIS_STATUS = <<>>
    /\ user_files = 0
    /\ analyses = <<>>
    /\ loading = <<>>
    /\ n_loading = 0
    /\ reset = NoCall
    /\ resets = 0

fxVars == <<rate_cache, conv, report, xirr, fetch>>
timeVars == <<clock, last_request_time, last_issued>>
appVars == <<PORTFOLIO_CACHE, ANALYSIS_STATUS, user_files, analyses, loading, n_loading,
             reset, resets>>
refreshVars == <<rf, rf_rounds>>
quoteVars == <<holdings, price_cache, quote_log>>
ledgerVars == <<csv_files, df_trades, has_columns, splits_src, splits_cache>>

\* _load_and_process_data, line 31: self.df_trades = self.data_loader.load_all_trades()
Load ==
    /\ pc = "new"
    /\ \E frame \in LoadAllTrades(csv_files).frames : df_trades' = frame
    /\ has_columns' = LoadAllTrades(csv_files).columns
    /\ pc' = "loaded"
    /\ UNCHANGED <<csv_files, splits_src, splits_cache, agg_i>>
    /\ UNCHANGED <<quoteVars, refreshVars, fxVars, timeVars, appVars>>

\* _load_and_process_data, line 34: adjust_for_splits, the split source answering src
Adjust ==
    /\ pc = "loaded"
    /\ \E src \in [SeqToSet(UniqueSymbols(df_trades)) -> SplitAnswers] :
          /\ splits_src' = src
          /\ df_trades' = AdjustForSplits(df_trades, splits_cache, src).df
          /\ splits_cache' = AdjustForSplits(df_trades, splits_cache, src).cache
    /\ pc' = "adjusted"
    /\ UNCHANGED <<csv_files, has_columns, agg_i>>
    /\ UNCHANGED <<quoteVars, refreshVars, fxVars, timeVars, appVars>>

\* _load_and_process_data, lines 37-40: the adjusted_cashflow column; a frame without
\* columns raises KeyError, which the constructor re-raises
CalcCashflow ==
    /\ pc = "adjusted"
    /\ IF has_columns
       THEN /\ df_trades' = [i \in 1..Len(df_trades) |->
                    [adjusted_cashflow |->
                        RMul(df_trades[i].adjusted_quantity, df_trades[i].adjusted_price)]
                    @@ df_trades[i]]
            /\ pc' = IF df_trades = <<>> THEN "ready" ELSE "aggregating"
            /\ agg_i' = 1
       ELSE /\ pc' = "failed"
            /\ UNCHANGED <<df_trades, agg_i>>
    /\ UNCHANGED <<csv_files, has_columns, splits_src, splits_cache>>
    /\ UNCHANGED <<quoteVars, refreshVars, fxVars, timeVars, appVars>>

QuoteLog(r) == [value |-> r.value, real |-> r.real, hit |-> r.hit]

\* lines 92-110 of _calculate_holdings_with_batching, r being what get_latest_price_safe gave
StoreHolding(symbol, symbol_trades, r) ==
    IF r.raised # ""
    THEN UNCHANGED quoteVars       \* except: log and continue
    ELSE /\ holdings' = Put(holdings, symbol, NewHolding(symbol_trades, r.value))
         /\ price_cache' = r.cache
         /\ quote_log' = Put(quote_log, symbol, QuoteLog(r))

\* lines 84-110: the body of the symbol loop
ProcessSymbol(symbol, symbol_trades) ==
    IF IsHeld(symbol_trades)
    THEN \E q \in QuoteAnswers :
            StoreHolding(symbol, symbol_trades, GetLatestPriceSafe(price_cache, symbol, q))
    ELSE UNCHANGED quoteVars

\* one iteration of the symbol loop of _calculate_holdings_with_batching
AggregateSymbol ==
    /\ pc = "aggregating"
    /\ ProcessSymbol(UniqueSymbols(df_trades)[agg_i],
                     SymbolTrades(df_trades, UniqueSymbols(df_trades)[agg_i]))
    /\ agg_i' = agg_i + 1
    /\ pc' = IF agg_i = Len(UniqueSymbols(df_trades)) THEN "ready" ELSE "aggregating"
    /\ UNCHANGED <<ledgerVars, refreshVars, fxVars, timeVars, appVars>>

\* refresh_prices is called on a constructed manager
RefreshStart ==
    /\ pc = "ready"
    /\ rf.step = "idle"
    /\ rf_rounds < MaxRefresh
    /\ rf_rounds' = rf_rounds + 1
    /\ rf' = IF HoldingKeys = <<>> THEN Idle ELSE [i |-> 1, step |-> "fetch"]
    /\ UNCHANGED <<ledgerVars, quoteVars, pc, agg_i, fxVars, timeVars, appVars>>

\* mutant: the cache key is not deleted
Drop_Nothing(d, k) == d

\* del d[k] if k in d
Drop(d, k) == [x \in DOMAIN d \ {k} |-> d[x]]

\* the next position of the refresh loop after the holding at index i
RefreshNext(i) == IF i = Len(HoldingKeys) THEN Idle ELSE [i |-> i + 1, step |-> "fetch"]

\* refresh_prices, lines 315-318, r being what get_latest_price_safe gave
StorePrice(symbol, r) ==
    IF r.raised # ""
    THEN /\ price_cache' = r.cache          \* except: log, next symbol
         /\ rf' = RefreshNext(rf.i)
         /\ UNCHANGED <<holdings, quote_log>>
    ELSE /\ holdings' = [holdings EXCEPT ![symbol].current_price = r.value]
         /\ price_cache' = r.cache
         /\ quote_log' = Put(quote_log, symbol, QuoteLog(r))
         /\ rf' = [rf EXCEPT !.step = "market_value"]

\* refresh_prices, lines 310-318: invalidate the cache key, fetch, store current_price
RefreshSymbol(symbol) ==
    \E q \in QuoteAnswers :
        StorePrice(symbol, GetLatestPriceSafe(Drop(price_cache, symbol), symbol, q))

RefreshFetch ==
    /\ rf.step = "fetch"
    /\ RefreshSymbol(HoldingKeys[rf.i])
    /\ UNCHANGED <<ledgerVars, pc, agg_i, rf_rounds, fxVars, timeVars, appVars>>

\* the fields refresh_prices recomputes from new_price (= the current_price just stored)
\* mutant: market_value is not recomputed
RefreshedMarketValue_Stale(h) == h

\* mutant: the recomputed figure is stored in avg_cost
RefreshedPnl_IntoAvgCost(h) ==
    [h EXCEPT !.avg_cost = UnrealizedPnl(h.quantity, h.avg_cost, h.current_price)]

RefreshedMarketValue(h) ==
    [h EXCEPT !.market_value = MarketValue(h.quantity, h.current_price)]
RefreshedPnl(h) ==
    [h EXCEPT !.unrealized_pnl = UnrealizedPnl(h.quantity, h.avg_cost, h.current_price)]

\* refresh_prices, lines 319-321
RefreshMarketValue ==
    /\ rf.step = "market_value"
    /\ holdings' = [holdings EXCEPT ![HoldingKeys[rf.i]] = RefreshedMarketValue(@)]
    /\ rf' = [rf EXCEPT !.step = "pnl"]
    /\ UNCHANGED <<ledgerVars, price_cache, quote_log, pc, agg_i, rf_rounds, fxVars, timeVars, appVars>>

\* refresh_prices, lines 322-328
RefreshPnl ==
    /\ rf.step = "pnl"
    /\ holdings' = [holdings EXCEPT ![HoldingKeys[rf.i]] = RefreshedPnl(@)]
    /\ rf' = RefreshNext(rf.i)
    /\ UNCHANGED <<ledgerVars, price_cache, quote_log, pc, agg_i, rf_rounds, fxVars, timeVars, appVars>>

\* a report r is returned to the caller; the converter keeps its cache
Publish(r) ==
    /\ report' = [k \in DOMAIN r \ {"cache"} |-> r[k]]
    /\ rate_cache' = r.cache

\* get_portfolio_summary on a constructed manager
Summary ==
    /\ pc = "ready"
    /\ \E o1 \in FxOracles(PairsOf("SGD", "USD")), o2 \in FxOracles(PairsOf("USD", "SGD")) :
         Publish(GetPortfolioSummary(holdings, HoldingKeys, rate_cache, o1, o2))
    /\ UNCHANGED <<ledgerVars, quoteVars, pc, agg_i, refreshVars, conv, xirr, fetch, timeVars, appVars>>

\* the currencies the value history is asked in
ReportCurrencies == {"USD", "SGD"}

\* get_portfolio_value_history(currency) on a constructed manager
History ==
    /\ pc = "ready"
    /\ \E currency \in ReportCurrencies :
       \E o1 \in FxOracles(PairsOf("USD", currency)), o2 \in FxOracles(PairsOf("USD", currency)) :
         Publish(GetPortfolioValueHistory(holdings, HoldingKeys, rate_cache, <<o1, o2>>, currency))
    /\ UNCHANGED <<ledgerVars, quoteVars, pc, agg_i, refreshVars, conv, xirr, fetch, timeVars, appVars>>

Amounts == { RInt(n) : n \in 0..MaxAmount }

\* convert(amount, f, t) returns r
Converted(amount, f, t, r) ==
    /\ conv' = [kind |-> "convert", amount |-> amount, from |-> f, to |-> t,
                before |-> rate_cache, trace |-> r.trace, value |-> r.value]
    /\ rate_cache' = r.cache

\* one call of CurrencyConverter.convert on a converter of its own
ConvertCall ==
    /\ \E amount \in Amounts, f \in Currencies, t \in Currencies :
       \E o \in FxOracles(PairsOf(f, t)) :
         Converted(amount, f, t, Convert(rate_cache, o, amount, f, t))
    /\ UNCHANGED <<ledgerVars, quoteVars, pc, agg_i, refreshVars, report, xirr, fetch, timeVars, appVars>>

\* get_latest_price_safe(symbol) returns r
QuoteReturned(symbol, r) ==
    /\ fetch' = [kind |-> "latest_price", symbol |-> symbol, before |-> price_cache,
                 value |-> r.value, real |-> r.real, hit |-> r.hit, attempts |-> r.attempts,
                 raised |-> r.raised]
    /\ price_cache' = r.cache
    /\ quote_log' = Put(quote_log, symbol, QuoteLog(r))

\* a caller asks the manager's PriceFetcher for the latest price of a symbol
LatestPriceCall ==
    /\ pc = "ready"
    /\ rf.step = "idle"
    /\ \E symbol \in Symbols, q \in QuoteAnswers :
         QuoteReturned(symbol, GetLatestPriceSafe(price_cache, symbol, q))
    /\ UNCHANGED <<ledgerVars, holdings, pc, agg_i, refreshVars, rate_cache, conv, report,
                   xirr, timeVars, appVars>>

\* get_latest_price_safe(symbol), entered at time t, returns r after the requests of tl
TimedReturned(symbol, t, r, tl) ==
    /\ fetch' = [kind |-> "timed_price", symbol |-> symbol, entered |-> t,
                 previous |-> IF symbol \in DOMAIN last_issued
                              THEN <<last_issued[symbol]>> ELSE <<>>,
                 requests |-> tl.requests, waits |-> tl.waits,
                 value |-> r.value, real |-> r.real]
    /\ price_cache' = r.cache
    /\ quote_log' = Put(quote_log, symbol, QuoteLog(r))
    /\ clock' = tl.end
    /\ last_request_time' = tl.last
    /\ last_issued' = IF tl.requests = <<>> THEN last_issued
                      ELSE Put(last_issued, symbol, tl.requests[Len(tl.requests)])

\* a caller asks a PriceFetcher for the latest price of a symbol, some time after its
\* previous call returned
TimedPriceCall ==
    /\ clock <= MaxClock
    /\ \E symbol \in Symbols, gap \in IdleTimes, q \in QuoteAnswers, rt \in RequestTimes,
          jit0 \in RateLimitJitter, jit \in [1..Retries -> BackoffJitter] :
         TimedReturned(symbol, clock + gap, GetLatestPriceSafe(price_cache, symbol, q),
                       TimedCall(last_request_time, price_cache, symbol, q, jit0, jit, rt,
                                 clock + gap))
    /\ UNCHANGED <<ledgerVars, holdings, pc, agg_i, refreshVars, rate_cache, conv, report,
                   xirr, appVars>>

\* the arguments of a calculate_xirr call that has not run yet
XirrArgs(cashflows, dates) == [kind |-> "args", cashflows |-> cashflows, dates |-> dates]

\* calculate_xirr(cashflows, dates) returns r, Newton's iteration ending as `newton` tells
XirrReturned(cashflows, dates, newton, r) ==
    xirr' = [kind |-> "xirr", cashflows |-> cashflows, dates |-> dates, newton |-> newton,
             result |-> r]

\* the call of calculate_xirr on the arguments held in xirr
XirrCall ==
    /\ xirr.kind = "args"
    /\ \E newton \in NewtonOracles :
         XirrReturned(xirr.cashflows, xirr.dates, newton,
                      calculate_xirr(xirr.cashflows, xirr.dates, newton))
    /\ UNCHANGED <<ledgerVars, quoteVars, pc, agg_i, refreshVars, rate_cache, conv, report,
                   fetch, timeVars, appVars>>

Construct == Load \/ Adjust \/ CalcCashflow \/ AggregateSymbol

\* the manager's construction followed by price refreshes
Next ==
    \/ Load
    \/ Adjust
    \/ CalcCashflow
    \/ AggregateSymbol
    \/ RefreshStart
    \/ RefreshFetch
    \/ RefreshMarketValue
    \/ RefreshPnl

Spec == Init /\ [][Next]_vars

\* the manager's construction followed by reports
NextReport ==
    \/ Load
    \/ Adjust
    \/ CalcCashflow
    \/ AggregateSymbol
    \/ Summary
    \/ History

\* reports are taken on managers built from one file of valid rows in date order
InitReport ==
    /\ Init
    /\ Len(csv_files) = 1
    /\ csv_files[1].readable
    /\ \A i \in 1..Len(csv_files[1].rows) : RowValid(csv_files[1].rows[i])
    /\ SortedByDate(csv_files[1].rows)

SpecReport == InitReport /\ [][NextReport]_vars

\* a currency converter on its own
InitFx ==
    /\ Init
    /\ csv_files = <<>>

NextFx == ConvertCall

SpecFx == InitFx /\ [][NextFx]_vars

\* the manager's construction and refreshes, and direct calls of its PriceFetcher
NextQuote ==
    \/ Load
    \/ Adjust
    \/ CalcCashflow
    \/ AggregateSymbol
    \/ RefreshStart
    \/ RefreshFetch
    \/ RefreshMarketValue
    \/ RefreshPnl
    \/ LatestPriceCall

\* direct calls are made on managers built from one file holding at most one row, a buy,
\* per symbol
InitQuote ==
    /\ InitReport
    /\ \A i \in 1..Len(csv_files[1].rows) :
          /\ RLess(Zero, csv_files[1].rows[i].Quantity)
          /\ \A j \in 1..Len(csv_files[1].rows) :
                csv_files[1].rows[j].Symbol = csv_files[1].rows[i].Symbol => j = i

SpecQuote == InitQuote /\ [][NextQuote]_vars

\* get_portfolio_summary called from one thread while refresh_prices runs in another: the
\* summary may be computed between any two steps of the refresh (its own reads of the
\* holdings are taken together)
NextRace ==
    \/ Load
    \/ Adjust
    \/ CalcCashflow
    \/ AggregateSymbol
    \/ RefreshStart
    \/ RefreshFetch
    \/ RefreshMarketValue
    \/ RefreshPnl
    \/ Summary

SpecRace == InitQuote /\ [][NextRace]_vars

\* a PriceFetcher on its own, under a clock
NextThrottle == TimedPriceCall

SpecThrottle == InitFx /\ [][NextThrottle]_vars

-----------------------------------------------------------------------------
(* app.py: the request handlers of one user and the background analysis threads *)

user_id == "u1"             \* session["user_id"]

modelVars == <<ledgerVars, quoteVars, pc, agg_i, refreshVars, fxVars, timeVars>>

\* run_analysis_for_user as a thread that has just been started
\*   pc: "construct" (lines 42-43), "store" (line 44), "complete" (line 45), "error" (line 49),
\*       "done"
\*   epoch: the number of status resets that preceded its start
\*   data: the upload its DataLoader read; stored: whether it put a manager in PORTFOLIO_CACHE
\*   outcome: the status it set
Started ==
    [pc |-> "construct", epoch |-> resets, data |-> 0, stored |-> FALSE, outcome |-> ""]

\* what DataLoader(...) and PortfolioManager(...) can do on the files of the folder: a
\* folder without csv files gives a frame without columns and the constructor raises
Constructions(files) == IF files = 0 THEN {"raise"} ELSE {"ok", "raise"}

\* mutant: no except clause, the exception ends the thread
AfterConstruct_Uncaught(c) == IF c = "ok" THEN "store" ELSE "done"

\* where run_analysis_for_user goes after the constructor returned or raised
AfterConstruct(c) == IF c = "ok" THEN "store" ELSE "error"

\* mutant: the test is `ANALYSIS_STATUS.get(user_id) != 'running'`
NoStatus_NotRunning(status) ==
    user_id \notin DOMAIN status \/ status[user_id] # "running"

\* loading_page, line 97: user_id not in ANALYSIS_STATUS
NoStatus(status) == user_id \notin DOMAIN status

\* loading_page, lines 94-97: a /loading request arrives and tests the status
LoadingCheck ==
    /\ n_loading < MaxLoading
    /\ n_loading' = n_loading + 1
    /\ loading' = IF NoStatus(ANALYSIS_STATUS)
                  THEN Append(loading, [pc |-> "set_running"])
                  ELSE loading
    /\ UNCHANGED <<PORTFOLIO_CACHE, ANALYSIS_STATUS, user_files, analyses, reset, resets>>
    /\ UNCHANGED modelVars

\* loading_page, line 98
LoadingSetRunning ==
    /\ \E r \in 1..Len(loading) :
          /\ loading[r].pc = "set_running"
          /\ loading' = [loading EXCEPT ![r].pc = "start_thread"]
    /\ ANALYSIS_STATUS' = Put(ANALYSIS_STATUS, user_id, "running")
    /\ UNCHANGED <<PORTFOLIO_CACHE, user_files, analyses, n_loading, reset, resets>>
    /\ UNCHANGED modelVars

\* loading_page, lines 99-103: the thread is started, the page is rendered
LoadingStartThread ==
    /\ \E r \in 1..Len(loading) :
          /\ loading[r].pc = "start_thread"
          /\ loading' = [loading EXCEPT ![r].pc = "done"]
    /\ analyses' = Append(analyses, Started)
    /\ UNCHANGED <<PORTFOLIO_CACHE, ANALYSIS_STATUS, user_files, n_loading, reset, resets>>
    /\ UNCHANGED modelVars

\* run_analysis_for_user, lines 42-43
AnalysisConstruct ==
    /\ \E t \in 1..Len(analyses), c \in Constructions(user_files) :
          /\ analyses[t].pc = "construct"
          /\ analyses' = [analyses EXCEPT ![t].pc = AfterConstruct(c), ![t].data = user_files]
    /\ UNCHANGED <<PORTFOLIO_CACHE, ANALYSIS_STATUS, user_files, loading, n_loading, reset,
                   resets>>
    /\ UNCHANGED modelVars

\* run_analysis_for_user, line 44
AnalysisStore ==
    /\ \E t \in 1..Len(analyses) :
          /\ analyses[t].pc = "store"
          /\ PORTFOLIO_CACHE' =
                Put(PORTFOLIO_CACHE, user_id, [run |-> t, data |-> analyses[t].data])
          /\ analyses' = [analyses EXCEPT ![t].pc = "complete", ![t].stored = TRUE]
    /\ UNCHANGED <<ANALYSIS_STATUS, user_files, loading, n_loading, reset, resets>>
    /\ UNCHANGED modelVars

\* run_analysis_for_user, line 45
AnalysisComplete ==
    /\ \E t \in 1..Len(analyses) :
          /\ analyses[t].pc = "complete"
          /\ analyses' = [analyses EXCEPT ![t].pc = "done", ![t].outcome = "complete"]
    /\ ANALYSIS_STATUS' = Put(ANALYSIS_STATUS, user_id, "complete")
    /\ UNCHANGED <<PORTFOLIO_CACHE, user_files, loading, n_loading, reset, resets>>
    /\ UNCHANGED modelVars

\* run_analysis_for_user, lines 47-49
AnalysisError ==
    /\ \E t \in 1..Len(analyses) :
          /\ analyses[t].pc = "error"
          /\ analyses' = [analyses EXCEPT ![t].pc = "done", ![t].outcome = "error"]
    /\ ANALYSIS_STATUS' = Put(ANALYSIS_STATUS, user_id, "error")
    /\ UNCHANGED <<PORTFOLIO_CACHE, user_files, loading, n_loading, reset, resets>>
    /\ UNCHANGED modelVars

\* upload_page (POST with files), lines 75-76, and clear_data, lines 170-172: the folder
\* is removed
ResetBegin ==
    /\ reset = NoCall
    /\ resets < MaxResets
    /\ \E kind \in {"upload", "clear"} : reset' = [kind |-> kind, pc |-> "del_cache"]
    /\ user_files' = 0
    /\ UNCHANGED <<PORTFOLIO_CACHE, ANALYSIS_STATUS, analyses, loading, n_loading, resets>>
    /\ UNCHANGED modelVars

\* upload_page, line 79, and clear_data, line 175
ResetDelCache ==
    /\ reset # NoCall
    /\ reset.pc = "del_cache"
    /\ PORTFOLIO_CACHE' = Drop(PORTFOLIO_CACHE, user_id)
    /\ reset' = [reset EXCEPT !.pc = "del_status"]
    /\ UNCHANGED <<ANALYSIS_STATUS, user_files, analyses, loading, n_loading, resets>>
    /\ UNCHANGED modelVars

\* upload_page, line 80, and clear_data, lines 176-179 (the last thing clear_data does)
ResetDelStatus ==
    /\ reset # NoCall
    /\ reset.pc = "del_status"
    /\ ANALYSIS_STATUS' = Drop(ANALYSIS_STATUS, user_id)
    /\ resets' = resets + 1
    /\ reset' = IF reset.kind = "upload" THEN [reset EXCEPT !.pc = "save"] ELSE NoCall
    /\ UNCHANGED <<PORTFOLIO_CACHE, user_files, analyses, loading, n_loading>>
    /\ UNCHANGED modelVars

\* upload_page, lines 82-87: the files are saved, the browser is sent to /loading
ResetSave ==
    /\ reset # NoCall
    /\ reset.pc = "save"
    /\ user_files' = resets
    /\ reset' = NoCall
    /\ UNCHANGED <<PORTFOLIO_CACHE, ANALYSIS_STATUS, analyses, loading, n_loading, resets>>
    /\ UNCHANGED modelVars

LoadingRun == LoadingSetRunning \/ LoadingStartThread
AnalysisRun == AnalysisConstruct \/ AnalysisStore \/ AnalysisComplete \/ AnalysisError

\* the handlers run in the threads of the server, the analyses in threads of their own: any
\* interleaving of their steps
NextApp ==
    \/ LoadingCheck
    \/ LoadingSetRunning
    \/ LoadingStartThread
    \/ AnalysisConstruct
    \/ AnalysisStore
    \/ AnalysisComplete
    \/ AnalysisError
    \/ ResetBegin
    \/ ResetDelCache
    \/ ResetDelStatus
    \/ ResetSave

SpecApp == InitFx /\ [][NextApp]_vars

\* a request handler that has started and an analysis thread go on running
SpecAppFair == SpecApp /\ WF_vars(LoadingRun) /\ WF_vars(AnalysisRun)

\* calculate_xirr on its own, on every pair of lists of at most MaxFlows elements
InitXirr ==
    /\ csv_files = <<>>
    /\ df_trades = <<>>
    /\ has_columns = FALSE
    /\ splits_src = <<>>
    /\ splits_cache = <<>>
    /\ holdings = <<>>
    /\ price_cache = <<>>
    /\ quote_log = <<>>
    /\ pc = "new"
    /\ agg_i = 0
    /\ rf = Idle
    /\ rf_rounds = 0
    /\ rate_cache = <<>>
    /\ conv = NoCall
    /\ report = NoCall
    /\ fetch = NoCall
    /\ clock = 0
    /\ last_request_time = <<>>
    /\ last_issued = <<>>
    /\ PORTFOLIO_CACHE = <<>>
    /\ ANALYSIS_STATUS = <<>>
    /\ user_files = 0
    /\ analyses = <<>>
    /\ loading = <<>>
    /\ n_loading = 0
    /\ reset = NoCall
    /\ resets = 0
    /\ xirr \in { XirrArgs(cashflows, dates) :
                    cashflows \in SeqsUpTo(XirrFlows, MaxFlows),
                    dates \in SeqsUpTo(XirrDays, MaxFlows) }

NextXirr == XirrCall

SpecXirr == InitXirr /\ [][NextXirr]_vars

-----------------------------------------------------------------------------
(* Reference quantities the claims are stated with, computed from the ledger row by row *)

TradesOf(symbol) == { i \in 1..Len(df_trades) : df_trades[i].Symbol = symbol }

\* the sum of g[i] over the indices i of idx
RECURSIVE SumOver(_, _)
SumOver(idx, g) ==
    IF idx = {} THEN Zero
    ELSE LET i == CHOOSE j \in idx : TRUE
         IN  RAdd(g[i], SumOver(idx \ {i}, g))

Buys(symbol) == { i \in TradesOf(symbol) : df_trades[i].adjusted_quantity[1] > 0 }
Sells(symbol) == { i \in TradesOf(symbol) : df_trades[i].adjusted_quantity[1] < 0 }

\* sum of the positive adjusted quantities minus sum of the absolute negative ones
RefNet(symbol) ==
    RSub(SumOver(Buys(symbol), [i \in Buys(symbol) |-> df_trades[i].adjusted_quantity]),
         SumOver(Sells(symbol), [i \in Sells(symbol) |-> RAbs(df_trades[i].adjusted_quantity)]))

RefBuyQty(symbol) ==
    SumOver(Buys(symbol), [i \in Buys(symbol) |-> df_trades[i].adjusted_quantity])
RefBuyCost(symbol) ==
    SumOver(Buys(symbol),
            [i \in Buys(symbol) |->
                RMul(df_trades[i].adjusted_quantity, df_trades[i].adjusted_price)])

LedgerSymbols == { df_trades[i].Symbol : i \in 1..Len(df_trades) }
Aggregated == pc = "ready"
Loaded == pc \in {"loaded", "adjusted", "aggregating", "ready"}
SplitsAdjusted == pc \in {"adjusted", "aggregating", "ready"}

-----------------------------------------------------------------------------
(* C1 *)

\* C1: once aggregation has run, a symbol has a holding if and only if it is traded
\* with a net adjusted quantity strictly greater than 0.
C1_HoldingIffNetPositive ==
    Aggregated =>
        \A s \in Symbols :
            (s \in DOMAIN holdings) <=> (s \in LedgerSymbols /\ RLess(Zero, RefNet(s)))

\* a symbol whose buy and sell cancel has no holding
C1_Witness ==
    /\ Aggregated
    /\ Cardinality(Buys(VODL)) = 1
    /\ Cardinality(Sells(VODL)) = 1
    /\ RefNet(VODL) = Zero
    /\ VODL \notin DOMAIN holdings

-----------------------------------------------------------------------------
(* C2 *)

\* C2: for every trade, adjusted_quantity * adjusted_price equals Quantity * T. Price
\* right after load_all_trades and after adjust_for_splits.
C2_ValuePreserved ==
    Loaded =>
        \A i \in 1..Len(df_trades) :
            RMul(df_trades[i].adjusted_quantity, df_trades[i].adjusted_price)
                = RMul(df_trades[i].Quantity, df_trades[i].TPrice)

\* a trade that splits did scale
C2_Witness ==
    /\ SplitsAdjusted
    /\ \E i \in 1..Len(df_trades) :
          /\ df_trades[i].split_adjusted
          /\ df_trades[i].adjusted_quantity # df_trades[i].Quantity
          /\ df_trades[i].adjusted_price # df_trades[i].TPrice

-----------------------------------------------------------------------------
(* C3 *)

RECURSIVE Product(_)
Product(ratios) == IF ratios = <<>> THEN RInt(1) ELSE RMul(Head(ratios), Product(Tail(ratios)))

\* the events of a sequence dated strictly after the trade's day
LaterEvents(events, trade) ==
    SelectSeq(events, LAMBDA e : e.date[1] > trade.DateTime[1])

RatioProduct(events, trade) ==
    Product([k \in 1..Len(LaterEvents(events, trade)) |-> LaterEvents(events, trade)[k].ratio])

ScaledBy(trade, factor) ==
    /\ trade.adjusted_quantity = RMul(trade.Quantity, factor)
    /\ trade.adjusted_price = RDiv(trade.TPrice, factor)

Reverse(s) == [i \in 1..Len(s) |-> s[Len(s) + 1 - i]]

\* the events of the source that are at most 3650 days old
WithinTenYears(events) ==
    SelectSeq(events, LAMBDA e : e.date[1] > Today - CutoffDays
                                 \/ (e.date[1] = Today - CutoffDays /\ e.date[2] >= NowTs[2]))

\* C3 as claimed: after adjust_for_splits every trade is scaled by the product of the
\* ratios of exactly those split events of its symbol dated strictly after the trade.
C3_ScaledByAllLaterSplits ==
    SplitsAdjusted =>
        \A i \in 1..Len(df_trades) :
            ScaledBy(df_trades[i],
                     RatioProduct(splits_src[df_trades[i].Symbol].events, df_trades[i]))

\* C3 amended: after adjust_for_splits every trade is scaled by the product of the ratios
\* of exactly those split events of its symbol that are at most 3650 days old and dated
\* strictly after the trade's day; a trade dated on or after an event's day is not scaled
\* by it; and processing the events in the opposite order gives the same ledger.
C3_ScaledByRecentLaterSplits ==
    SplitsAdjusted =>
        /\ \A i \in 1..Len(df_trades) :
              ScaledBy(df_trades[i],
                       RatioProduct(WithinTenYears(splits_src[df_trades[i].Symbol].events),
                                    df_trades[i]))
        /\ \A s \in LedgerSymbols :
              WithinTenYears(splits_src[s].events) # <<>> =>
                  [i \in 1..Len(SymbolTrades(df_trades, s)) |->
                      [f \in {"adjusted_quantity", "adjusted_price", "split_adjusted"} |->
                          ApplySplitsToTrades(SymbolTrades(df_trades, s),
                              Reverse(WithinTenYears(splits_src[s].events)))[i][f]]]
                  = [i \in 1..Len(SymbolTrades(df_trades, s)) |->
                      [f \in {"adjusted_quantity", "adjusted_price", "split_adjusted"} |->
                          SymbolTrades(df_trades, s)[i][f]]]

\* 100 shares at 40 bought before two 2:1 splits have become 400 shares at 10
C3_Witness ==
    /\ pc = "adjusted"
    /\ \E i \in 1..Len(df_trades) :
          /\ df_trades[i].Quantity = RInt(100)
          /\ df_trades[i].TPrice = RInt(40)
          /\ Len(LaterEvents(splits_src[df_trades[i].Symbol].events, df_trades[i])) = 2
          /\ df_trades[i].adjusted_quantity = RInt(400)
          /\ df_trades[i].adjusted_price = RInt(10)

-----------------------------------------------------------------------------
(* C4 *)

WithoutSells(trades) == SelectSeq(trades, LAMBDA t : ~IsSell(t))

\* C4: every holding's avg_cost is the buy trades' total adjusted cost divided by their
\* total adjusted quantity, and is what the symbol's trades give with the sells removed.
C4_AvgCostFromBuysOnly ==
    Aggregated =>
        \A s \in DOMAIN holdings :
            /\ holdings[s].avg_cost = RDiv(RefBuyCost(s), RefBuyQty(s))
            /\ holdings[s].avg_cost = AvgCost(WithoutSells(SymbolTrades(df_trades, s)))

\* buy 10 at 100, buy 10 at 200: avg_cost 150 and quantity 20; and a holding with a sell
C4_Witness ==
    /\ Aggregated
    /\ \E s \in DOMAIN holdings :
          /\ Cardinality(Buys(s)) = 2
          /\ RefBuyQty(s) = RInt(20)
          /\ holdings[s].avg_cost = RInt(150)
          /\ holdings[s].quantity = RInt(20)

-----------------------------------------------------------------------------
(* C5 *)

BetweenHoldingUpdates == rf.step \in {"idle", "fetch"}

\* C5: whenever refresh_prices is not in the middle of updating a holding (so after
\* aggregation and after any number of completed refreshes), every holding has
\* market_value = quantity * current_price and unrealized_pnl = (current_price - avg_cost) * quantity.
C5_DerivedFieldsConsistent ==
    BetweenHoldingUpdates =>
        \A s \in DOMAIN holdings :
            /\ holdings[s].market_value = RMul(holdings[s].quantity, holdings[s].current_price)
            /\ holdings[s].unrealized_pnl =
                  RMul(RSub(holdings[s].current_price, holdings[s].avg_cost), holdings[s].quantity)

\* a refresh has completed and left a holding at a price other than the placeholder
C5_Witness ==
    /\ Aggregated
    /\ rf.step = "idle"
    /\ rf_rounds >= 1
    /\ \E s \in DOMAIN holdings :
          /\ quote_log[s].real
          /\ holdings[s].current_price = RInt(50)
          /\ holdings[s].market_value = RMul(holdings[s].quantity, RInt(50))

-----------------------------------------------------------------------------
(* C6 *)

SameBasis(h1, h2) ==
    /\ DOMAIN h1 = DOMAIN h2
    /\ \A s \in DOMAIN h1 :
          /\ h1[s].quantity = h2[s].quantity
          /\ h1[s].avg_cost = h2[s].avg_cost
          /\ h1[s].currency = h2[s].currency

\* C6: every step of refresh_prices leaves the set of held symbols and every holding's
\* quantity, avg_cost and currency as they were, whatever the gateway answers.
C6_RefreshKeepsBasis == [][Aggregated => SameBasis(holdings, holdings')]_vars

\* a refresh is updating the second of two holdings, the first one refreshed by a real quote
C6_Witness ==
    /\ Aggregated
    /\ rf.step = "pnl"
    /\ rf.i = 2
    /\ \E s \in DOMAIN holdings : quote_log[s].real

-----------------------------------------------------------------------------
(* C7 *)

Answered(trace, p, a) == \E k \in 1..Len(trace) : trace[k] = <<p, a>>

\* the rate for a -> b as the call could obtain it: the cached or fetched direct rate,
\* else the inverted cached or fetched inverse rate, else None
ObtainedRate(cache, trace, a, b) ==
    IF <<a, b>> \in DOMAIN cache THEN cache[<<a, b>>]
    ELSE IF Answered(trace, <<a, b>>, "ok") THEN FxQuote(<<a, b>>)
    ELSE IF <<b, a>> \in DOMAIN cache THEN RDiv(RInt(1), cache[<<b, a>>])
    ELSE IF Answered(trace, <<b, a>>, "ok") THEN RDiv(RInt(1), FxQuote(<<b, a>>))
    ELSE None

\* neither the direct nor the inverse rate of the call's pair was obtainable
NeedsPivot ==
    /\ conv.kind = "convert"
    /\ conv.from # conv.to /\ conv.from # "USD" /\ conv.to # "USD"
    /\ ObtainedRate(conv.before, conv.trace, conv.from, conv.to) = None

\* C7 as claimed: when a conversion between two non-USD currencies has neither a direct nor
\* an inverse rate and both USD legs have a rate, the result is
\* amount * rate(A,USD) * rate(USD,B), for every amount.
C7_PivotProduct ==
    (/\ NeedsPivot
     /\ ObtainedRate(conv.before, conv.trace, conv.from, "USD") # None
     /\ ObtainedRate(conv.before, conv.trace, "USD", conv.to) # None)
    => conv.value =
          RMul(RMul(conv.amount, ObtainedRate(conv.before, conv.trace, conv.from, "USD")),
               ObtainedRate(conv.before, conv.trace, "USD", conv.to))

-----------------------------------------------------------------------------
(* C8 *)

\* C8 as claimed: a report never holds a figure obtained by putting 0, or the unconverted
\* amount, in the place of an unavailable conversion of a nonzero amount.
C8_NoSilentSubstitution ==
    /\ (report.kind = "summary" /\ report.converted # <<>>) =>
          /\ (report.converted[1] = None /\ TotalIn(holdings, HoldingKeys, "SGD") # Zero) =>
                report.total_value_usd # RAdd(TotalIn(holdings, HoldingKeys, "USD"), Zero)
          /\ (report.converted[2] = None /\ report.total_value_usd # Zero) =>
                report.total_value_sgd # Zero
    /\ report.kind = "history" =>
          \A i \in 1..Len(report.converted) :
              (report.converted[i] = None /\ report.daily[i] # Zero) =>
                  report.values[i] # report.daily[i]

-----------------------------------------------------------------------------
(* C9 *)

\* C9: whatever the quote source does for each symbol, aggregation ends with a holding for
\* every symbol of positive net quantity, each valued at the number get_latest_price_safe
\* returned for it and otherwise computed from its own trades alone.
C9_QuoteFailuresIsolated ==
    (Aggregated /\ rf_rounds = 0) =>
        \A s \in LedgerSymbols :
            RLess(Zero, RefNet(s)) =>
                /\ s \in DOMAIN holdings
                /\ s \in DOMAIN quote_log
                /\ IsNum(quote_log[s].value)
                /\ holdings[s] = NewHolding(SymbolTrades(df_trades, s), quote_log[s].value)

\* one symbol got the fallback instead of a quote, another one got a real quote, both are held
C9_Witness ==
    /\ Aggregated
    /\ rf_rounds = 0
    /\ \E s, t \in DOMAIN holdings :
          /\ ~quote_log[s].real
          /\ quote_log[t].real
          /\ holdings[t].current_price = RInt(50)

-----------------------------------------------------------------------------
(* C10 *)

\* C10 as claimed: a value get_latest_price_safe returned as a fallback is never equal to a
\* value it returned as a real quote (the holding record stores nothing else of the quote).
C10_FallbackDistinguishable ==
    \A s, t \in DOMAIN quote_log :
        (~quote_log[s].real /\ quote_log[t].real) => quote_log[s].value # quote_log[t].value

-----------------------------------------------------------------------------
(* C11 *)

\* the rows of all the csv files, as they stand in the files
RECURSIVE InputRows(_)
InputRows(files) == IF files = <<>> THEN <<>> ELSE Head(files).rows \o InputRows(Tail(files))

\* the csv columns of a ledger record
RawOf(t) == KindRow(t.Kind, t.Symbol, t.DateTime, t.Quantity, t.TPrice, t.Currency)

Occurrences(rows, r) == Cardinality({ i \in 1..Len(rows) : rows[i] = r })

\* timestamp, quantity and price parse and the symbol is present
Parses(r) ==
    /\ r.DateTime[2] >= 0
    /\ r.Quantity[2] > 0
    /\ r.TPrice[2] > 0
    /\ Len(r.Symbol) > 0

-----------------------------------------------------------------------------
(* C12 *)

Constructed == pc \in {"aggregating", "ready"}

\* C12 as claimed: construction fails if and only if no valid trade row remains over all
\* the sources (no source, or sources whose rows are all invalid).
C12_FatalIffNoValidRows ==
    (Constructed \/ pc = "failed") =>
        ((pc = "failed") <=>
            (\A i \in 1..Len(InputRows(csv_files)) : ~Parses(InputRows(csv_files)[i])))

-----------------------------------------------------------------------------
(* C13 *)

\* C13 as claimed: the loaded ledger holds trade rows only.
C13_OnlyTradeRows ==
    Loaded => \A i \in 1..Len(df_trades) : df_trades[i].Kind = "trade"


-----------------------------------------------------------------------------
(* C14 *)

Called == xirr.kind = "xirr"

\* the inputs the claim names, read off the arguments of the call
BadXirrInput ==
    \/ Len(xirr.cashflows) # Len(xirr.dates)
    \/ Len(xirr.cashflows) < 2
    \/ \A i \in 1..Len(xirr.cashflows) : xirr.cashflows[i] = <<0, 1>>
    \/ \E i \in 1..Len(xirr.cashflows) : xirr.cashflows[i][2] = 0

\* C14: a call whose lists differ in length, that has fewer than 2 points, whose cashflows
\* are all zero, or that holds a NaN or infinite cashflow returns None and raises nothing.
C14_BadInputGivesNone ==
    (Called /\ BadXirrInput) => (xirr.result.kind = "none" /\ xirr.result.raised = "")

\* a call with two cashflows and one date returned None
C14_Witness ==
    /\ Called
    /\ Len(xirr.cashflows) = 2
    /\ Len(xirr.dates) = 1
    /\ ~AnyNaN(xirr.cashflows) /\ ~AnyInf(xirr.cashflows) /\ ~AllZero(xirr.cashflows)
    /\ xirr.result = XNone

-----------------------------------------------------------------------------
(* C15 *)

\* a direct call returned in this step, for a symbol whose price was cached
CachedCall ==
    /\ fetch' # fetch
    /\ fetch'.symbol \in DOMAIN price_cache

\* refresh_prices fetched in this step, for a holding whose price was cached
CachedRefresh ==
    /\ rf.step = "fetch"
    /\ rf' # rf
    /\ HoldingKeys[rf.i] \in DOMAIN price_cache

\* C15: a call for a symbol whose price is cached returns the cached value, makes no fetch
\* attempt and leaves the cache as it is; a step of refresh_prices for such a symbol does
\* not serve the cached value: the call it makes is not a cache hit (it goes to the source).
C15_CachedUntilInvalidated ==
    [][/\ CachedCall =>
            /\ fetch'.hit
            /\ fetch'.attempts = 0
            /\ fetch'.value = price_cache[fetch'.symbol]
            /\ price_cache' = price_cache
       /\ CachedRefresh =>
            \/ HoldingKeys[rf.i] \notin DOMAIN quote_log'
            \/ ~quote_log'[HoldingKeys[rf.i]].hit]_vars

\* a direct call was served from the cache after a refresh had fetched a new price
C15_Witness ==
    /\ fetch.kind = "latest_price"
    /\ fetch.hit
    /\ rf_rounds >= 1
    /\ fetch.symbol \in DOMAIN holdings
    /\ fetch.value = RInt(50)

-----------------------------------------------------------------------------
(* C16 *)

\* C16: every gateway call returns a number after at most `retries` fetch attempts, whatever
\* the source answers to each attempt.
C16_BoundedAttempts ==
    fetch.kind = "latest_price" =>
        /\ fetch.attempts \in 0..Retries
        /\ fetch.raised = ""
        /\ IsNum(fetch.value)

\* a call that used all its attempts and got no quote
C16_Witness ==
    /\ fetch.kind = "latest_price"
    /\ fetch.attempts = Retries
    /\ ~fetch.real
    /\ fetch.value = RInt(DefaultPrice)

-----------------------------------------------------------------------------
(* C17 *)

AdjustedFields(t) ==
    [f \in {"adjusted_quantity", "adjusted_price", "split_adjusted"} |-> t[f]]

Untouched(t) ==
    /\ t.adjusted_quantity = t.Quantity
    /\ t.adjusted_price = t.TPrice
    /\ ~t.split_adjusted

\* the ledger as load_all_trades returned it
AsLoaded(df) == [i \in 1..Len(df) |-> WithAdjusted(RawOf(df[i]))]

\* C17: when the split lookup failed for a symbol, adjust_for_splits has completed, the
\* symbol's trades carry their raw quantity and price with split_adjusted false, and every
\* trade of every other symbol is adjusted as it is when the lookup for that symbol gives
\* any other answer instead.
C17_LookupFailureIsolated ==
    SplitsAdjusted =>
        \A s \in LedgerSymbols :
            ~splits_src[s].ok =>
                /\ \A i \in TradesOf(s) : Untouched(df_trades[i])
                /\ \A alt \in SplitAnswers :
                      \A i \in (1..Len(df_trades)) \ TradesOf(s) :
                          AdjustedFields(df_trades[i]) =
                              AdjustedFields(
                                  AdjustForSplits(AsLoaded(df_trades), <<>>,
                                                  [splits_src EXCEPT ![s] = alt]).df[i])

\* the lookup failed for the first symbol and a trade of the second one has been scaled
C17_Witness ==
    /\ pc = "adjusted"
    /\ Len(df_trades) = 2
    /\ ~splits_src[df_trades[1].Symbol].ok
    /\ df_trades[2].Symbol # df_trades[1].Symbol
    /\ df_trades[2].split_adjusted
    /\ df_trades[2].adjusted_quantity # df_trades[2].Quantity

-----------------------------------------------------------------------------
(* C19 *)

FirstTradeDay(s) ==
    CHOOSE d \in { df_trades[i].DateTime[1] : i \in TradesOf(s) } :
        \A i \in TradesOf(s) : d <= df_trades[i].DateTime[1]
LastTradeDay(s) ==
    CHOOSE d \in { df_trades[i].DateTime[1] : i \in TradesOf(s) } :
        \A i \in TradesOf(s) : d >= df_trades[i].DateTime[1]

\* the events dated on or after the symbol's first trade day and on or before its last
InWindow(events, s) ==
    SelectSeq(events, LAMBDA e : FirstTradeDay(s) <= e.date[1] /\ e.date[1] <= LastTradeDay(s))

RecentEvents(s) == WithinTenYears(splits_src[s].events)

-----------------------------------------------------------------------------
(* C18 *)

\* what the holdings cost: quantity * avg_cost summed over the holdings (refresh_prices
\* changes neither factor)
CostBasis == RSum(Column(HoldingKeys, LAMBDA k : RMul(holdings[k].quantity, holdings[k].avg_cost)))

\* C18 as claimed: the totals of a summary are computed from one consistent snapshot of
\* the holdings, so that, for a portfolio held in USD only, the unrealized P&L it reports
\* is the value it reports minus what the holdings cost.
C18_ConsistentSnapshot ==
    (/\ report.kind = "summary"
     /\ report.converted # <<>>
     /\ \A s \in DOMAIN holdings : holdings[s].currency = "USD")
    => report.total_unrealized_pnl = RSub(report.total_value_usd, CostBasis)

-----------------------------------------------------------------------------
(* C20 *)

Cached(p) == p \in DOMAIN conv.before
Asked(p) == \E k \in 1..Len(conv.trace) : conv.trace[k][1] = p
Position(p) == CHOOSE k \in 1..Len(conv.trace) : conv.trace[k][1] = p

DirectObtainable == Cached(<<conv.from, conv.to>>) \/ Answered(conv.trace, <<conv.from, conv.to>>, "ok")
InverseObtainable == Cached(<<conv.to, conv.from>>) \/ Answered(conv.trace, <<conv.to, conv.from>>, "ok")

DirectRate ==
    IF Cached(<<conv.from, conv.to>>) THEN conv.before[<<conv.from, conv.to>>]
    ELSE FxQuote(<<conv.from, conv.to>>)
InverseRate ==
    IF Cached(<<conv.to, conv.from>>) THEN conv.before[<<conv.to, conv.from>>]
    ELSE FxQuote(<<conv.to, conv.from>>)

\* C20: for distinct currencies, convert uses the direct rate whenever it is cached or the
\* source gives it, and then asks for nothing else; it uses the inverted inverse rate only
\* when the direct rate was not obtained; it asks for a USD leg only after both have failed
\* and neither currency is USD; and with no rate on any path it returns None.
C20_RateResolutionOrder ==
    (conv.kind = "convert" /\ conv.from # conv.to) =>
        /\ DirectObtainable =>
              /\ conv.value = RMul(conv.amount, DirectRate)
              /\ \A k \in 1..Len(conv.trace) : conv.trace[k][1] = <<conv.from, conv.to>>
        /\ (~DirectObtainable /\ InverseObtainable) =>
              /\ conv.value = RMul(conv.amount, RDiv(RInt(1), InverseRate))
              /\ \A k \in 1..Len(conv.trace) :
                    conv.trace[k][1] \in {<<conv.from, conv.to>>, <<conv.to, conv.from>>}
        /\ Asked(<<conv.to, conv.from>>) =>
              /\ Asked(<<conv.from, conv.to>>)
              /\ Position(<<conv.from, conv.to>>) < Position(<<conv.to, conv.from>>)
              /\ Answered(conv.trace, <<conv.from, conv.to>>, "error")
        /\ (\E k \in 1..Len(conv.trace) :
                conv.trace[k][1] \notin {<<conv.from, conv.to>>, <<conv.to, conv.from>>}) =>
              /\ ~DirectObtainable /\ ~InverseObtainable
              /\ conv.from # "USD" /\ conv.to # "USD"
        /\ (~DirectObtainable /\ ~InverseObtainable /\ (conv.from = "USD" \/ conv.to = "USD")) =>
              conv.value = None
        /\ (\A p \in PairsOf(conv.from, conv.to) : ~Cached(p) /\ ~Answered(conv.trace, p, "ok")) =>
              conv.value = None

\* the direct fetch failed and the cached inverse rate, inverted, gave the result
C20_Witness ==
    /\ conv.kind = "convert"
    /\ conv.from = "EUR" /\ conv.to = "USD"
    /\ conv.amount = RInt(2)
    /\ conv.trace = << <<<<"EUR", "USD">>, "error">> >>
    /\ Cached(<<"USD", "EUR">>)
    /\ conv.value = RMul(RInt(2), RDiv(RInt(1), FxQuote(<<"USD", "EUR">>)))
-----------------------------------------------------------------------------
(* C30 *)

\* the holding refresh_prices is working on
Refreshing == HoldingKeys[rf.i]

\* C30 as claimed: when the quote fetch of a refresh fails for a holding, no step of the
\* refresh changes that holding: current_price, market_value and unrealized_pnl stay at
\* their previous values, and a real price is never replaced by the placeholder.
C30_FailedRefreshKeepsValues ==
    [][(rf.step # "idle" /\ ~quote_log'[Refreshing].real)
          => holdings'[Refreshing] = holdings[Refreshing]]_vars

-----------------------------------------------------------------------------
(* C25 *)

\* the guesses whose iteration converged to a finite rate greater than -0.99
Accepted == { i \in 1..5 : xirr.newton[i] = "root" }

FirstAccepted == CHOOSE i \in Accepted : \A j \in Accepted : i <= j

\* C25: on an input that passes the checks, the guesses are tried in the order 0.1, 0.05,
\* 0.2, -0.1, 0.01; the result is that of the first guess whose iteration converged to a
\* finite rate above -0.99 (a rejected or failed guess is passed over, no later guess
\* replaces an accepted one), and the fallback is used only when all five failed.
C25_FirstAcceptedGuess ==
    (Called /\ ~BadXirrInput) =>
        IF Accepted # {}
        THEN /\ xirr.result.kind = "newton"
             /\ xirr.result.tried = FirstAccepted
             /\ xirr.result.guess =
                   <<<<1, 10>>, <<1, 20>>, <<1, 5>>, <<-1, 10>>, <<1, 100>>>>[FirstAccepted]
        ELSE xirr.result.kind # "newton"

\* the first guess converged below -0.99, the second raised, the third was accepted although
\* the fourth and the fifth would have converged as well
C25_Witness ==
    /\ Called
    /\ ~BadXirrInput
    /\ xirr.newton = <<"low", "raise", "root", "root", "root">>
    /\ xirr.result.kind = "newton"
    /\ xirr.result.guess = <<1, 5>>

-----------------------------------------------------------------------------
(* C26 *)

AllGuessesFailed == \A i \in 1..5 : xirr.newton[i] # "root"

\* total_invested, final_value and the sign of years, read off the arguments of the call
InvestedOf(cashflows) ==
    RSum([i \in 1..Len(cashflows) |->
            IF RLess(cashflows[i], Zero) THEN RNeg(cashflows[i]) ELSE Zero])
FinalOf(cashflows) == cashflows[Len(cashflows)]
YearsPositive(dates) == \E i \in 1..Len(dates) : dates[i] < dates[Len(dates)]

GrowthDefined ==
    /\ RLess(Zero, InvestedOf(xirr.cashflows))
    /\ RLess(Zero, FinalOf(xirr.cashflows))
    /\ YearsPositive(xirr.dates)

\* C26: when every guess failed, the result is the compound-growth estimate of final_value
\* over total_invested exactly when total_invested > 0, final_value > 0 and years > 0, and
\* None otherwise; no call raises.
C26_FallbackEstimate ==
    Called =>
        /\ xirr.result.raised = ""
        /\ (~BadXirrInput /\ AllGuessesFailed) =>
              IF GrowthDefined
              THEN /\ xirr.result.kind = "growth"
                   /\ xirr.result.final_value = FinalOf(xirr.cashflows)
                   /\ xirr.result.total_invested = InvestedOf(xirr.cashflows)
                   /\ xirr.result.days > 0
              ELSE xirr.result.kind = "none"

\* -100 then 110 a year later, every guess failing: the estimate 110/100 over 365 days
C26_Witness ==
    /\ Called
    /\ AllGuessesFailed
    /\ xirr.cashflows = <<RInt(-100), RInt(110)>>
    /\ xirr.result.kind = "growth"
    /\ xirr.result.days = 365

-----------------------------------------------------------------------------
(* C24 *)

\* the symbols the split adjuster has requested from the split source: every lookup of a
\* symbol that is not cached goes to the source and leaves a cache entry
SplitLookups == DOMAIN splits_cache

\* C24 as claimed: no request is issued for a symbol is_valid_ticker rejects, neither by the
\* price gateway, nor by the split adjuster, nor by the split analysis.
C24_NoRequestForInvalidTicker ==
    /\ (fetch.kind = "latest_price" /\ ~IsValidTicker(fetch.symbol)) =>
          (fetch.attempts = 0 /\ ~fetch.real)
    /\ \A s \in SplitLookups : IsValidTicker(s)
    /\ \A s \in SeqToSet(AnalysisLookups(df_trades)) : IsValidTicker(s)

-----------------------------------------------------------------------------
(* C21 *)

\* the pairs a call requested from the rate source
Requested(c) == { c.trace[k][1] : k \in 1..Len(c.trace) }

\* C21 as claimed, for every two successive convert calls on one converter within a day:
\* no call requests a pair twice, the later call requests no pair the earlier one requested,
\* and no step removes or replaces a cached rate.
C21_OneFetchPerPairPerDay ==
    [][/\ \A p \in DOMAIN rate_cache :
             p \in DOMAIN rate_cache' /\ rate_cache'[p] = rate_cache[p]
       /\ conv'.kind = "convert" =>
             \A i, j \in 1..Len(conv'.trace) :
                 conv'.trace[i][1] = conv'.trace[j][1] => i = j
       /\ (conv.kind = "convert" /\ conv'.kind = "convert") =>
             Requested(conv) \cap Requested(conv') = {}]_vars

-----------------------------------------------------------------------------
(* C22 *)

Timed == fetch.kind = "timed_price"

\* C22 as claimed: the sleep that follows the i-th failed attempt (i = 0, 1, ...) of a call
\* and precedes its next attempt is longer than base_delay * 2^i (the backoff plus a
\* positive jitter), whatever the failure was.
C22_ExponentialBackoff ==
    Timed =>
        \A k \in 1..Len(fetch.waits) :
            k < 3 => fetch.waits[k] > 2 * (2 ^ (k - 1))

-----------------------------------------------------------------------------
(* C23 *)

\* the requests of the last call, after the last request made before it for the symbol
RequestTimeline == fetch.previous \o fetch.requests

\* C23 as claimed: any two consecutive requests to the quote source for one symbol are at
\* least base_delay apart (the last request of the previous call and the first of this one,
\* the attempts of a call, the probe and the price read that follows it).
C23_MinimumInterval ==
    Timed =>
        \A k \in 1..(Len(RequestTimeline) - 1) :
            RequestTimeline[k + 1] - RequestTimeline[k] >= 2

-----------------------------------------------------------------------------
(* C27 *)

Runs == 1..Len(analyses)
Running == { t \in Runs : analyses[t].pc # "done" }

\* C27 as claimed: at most one analysis of the user is running at any time, and the /loading
\* requests received between two resets of the status start one analysis thread at most.
C27_OneAnalysisAtATime ==
    /\ Cardinality(Running) <= 1
    /\ \A s, t \in Runs : analyses[s].epoch = analyses[t].epoch => s = t

-----------------------------------------------------------------------------
(* C28 *)

\* the number of upload and clear-data requests that have completed
Completed == IF reset # NoCall /\ reset.pc = "save" THEN resets - 1 ELSE resets

\* the analysis was started after the last completed reset had reset the status
Fresh(t) == analyses[t].epoch >= Completed

\* C28 as claimed: once an upload or a clear-data has completed, the user's manager in
\* PORTFOLIO_CACHE, if any, and the status 'complete', if set, come from an analysis started
\* after that reset.
C28_NoStaleResult ==
    /\ user_id \in DOMAIN PORTFOLIO_CACHE => Fresh(PORTFOLIO_CACHE[user_id].run)
    /\ (user_id \in DOMAIN ANALYSIS_STATUS /\ ANALYSIS_STATUS[user_id] = "complete") =>
          \E t \in Runs : Fresh(t) /\ analyses[t].outcome = "complete"

-----------------------------------------------------------------------------
(* C29 *)

Ended(t) ==
    /\ analyses[t].pc = "done"
    /\ \/ analyses[t].outcome = "complete" /\ analyses[t].stored
       \/ analyses[t].outcome = "error" /\ ~analyses[t].stored

StatusIs(v) == user_id \in DOMAIN ANALYSIS_STATUS /\ ANALYSIS_STATUS[user_id] = v

\* C29: every started analysis ends, as 'complete' with its manager stored before the status
\* was set, or as 'error' with no manager stored by it; the status 'running' is left; and a
\* /loading request that finds the status 'complete' or 'error' (any status) starts no
\* analysis: a thread is started only by a request that found no status.
C29_AnalysisEnds ==
    /\ \A t \in 1..MaxLoading : (t \in Runs) ~> (t \in Runs /\ Ended(t))
    /\ StatusIs("running") ~> ~StatusIs("running")
    /\ [](\A t \in Runs :
            /\ analyses[t].pc = "done" => Ended(t)
            /\ analyses[t].pc = "complete" => analyses[t].stored
            /\ analyses[t].pc = "error" => ~analyses[t].stored)
    /\ [][/\ (n_loading' # n_loading /\ user_id \in DOMAIN ANALYSIS_STATUS)
                => loading' = loading
          /\ Len(analyses') <= Len(loading')]_vars

\* an analysis started after an upload has ended in 'complete', its manager is in the cache,
\* and a second /loading request has found the status and started nothing
C29_Witness ==
    /\ Len(analyses) = 1
    /\ Ended(1) /\ analyses[1].outcome = "complete"
    /\ StatusIs("complete")
    /\ user_id \in DOMAIN PORTFOLIO_CACHE
    /\ n_loading = 2
    /\ Len(loading) = 1

=============================================================================
